---------------------------- MODULE Spec2Model ----------------------------
(***************************************************************************)
(* Model of the PDF generation core of SENA-Gestion-Educativa:             *)
(* generateDocuments, fillActaCompromiso, fillTratamientoDatos,            *)
(* setTextField, insertSignatureImage and the field formatters of          *)
(* pdf-utils.                                                              *)
(*                                                                         *)
(* A JavaScript string is a sequence of one-character strings; the value   *)
(* undefined is the one-element sequence UNDEF, which is no character      *)
(* sequence.                                                               *)
(***************************************************************************)
EXTENDS Integers, Sequences, FiniteSets, TLC

VARIABLES
    rev,         \* which revision of pdf-utils runs: "v110" or "lib"
    pc,          \* position of generateDocuments / of the formatter harness
    data,        \* FullDocumentData handed to generateDocuments
    actaTpl,     \* template behind actaPdfBuffer
    tratTpl,     \* template behind tratamientoPdfBuffer
    actaResult,  \* const actaResult (with the document that was built)
    esMenor,     \* const esMenorDeEdad of generateDocuments
    tratResult,  \* let tratamientoResult
    result,      \* the GeneratedDocuments that generateDocuments returned
    error,       \* the error that generateDocuments raised
    trace,       \* the calls generateDocuments has made so far
    fmtIn,       \* formatter harness: the input string
    fmtOut,      \* formatter harness: formatDocumentNumber(fmtIn)
    fmtOut2,     \* formatter harness: formatDocumentNumber(fmtOut)
    lblIn,       \* label harness: <<tipoDocumento, numeroDocumento, cualTipo>>
    lblOut,      \* label harness: the two composite labels built from lblIn
    sigIn,       \* signature harness: the widget rectangle and the image size
    sigOut,      \* signature harness: the options handed to page.drawImage
    postIn,      \* route: the request POST receives and what surrounds it
    postOut,     \* route: the response of POST and what it handed to the core
    ui           \* form: the state of FormularioGeneradorPDF and its timers

vars == <<rev, pc, data, actaTpl, tratTpl, actaResult, esMenor, tratResult, result,
          error, trace, fmtIn, fmtOut, fmtOut2, lblIn, lblOut, sigIn, sigOut,
          postIn, postOut, ui>>

genVars == <<rev, data, actaTpl, tratTpl, actaResult, esMenor, tratResult, result,
             error, trace>>

webVars == <<postIn, postOut, ui>>

fmtVars == <<fmtIn, fmtOut, fmtOut2, lblIn, lblOut, sigIn, sigOut, webVars>>

-----------------------------------------------------------------------------
(* Bounds *)

MaxDigits == 12

MaxMixed == 5

MaxAbsent == 2

MantissaBits == 5

MaxSide == 6

MaxPixels == 5

\* the requests of one form that may be pending at a time
MaxInFlight == 2

-----------------------------------------------------------------------------
(* JavaScript values *)

UNDEF == <<"undefined-value">>

Str(s) ==
    CASE s = "TI" -> <<"T", "I">>
      [] s = "CC" -> <<"C", "C">>
      [] s = "CE" -> <<"C", "E">>
      [] s = "Otro" -> <<"O", "t", "r", "o">>
      [] s = "X" -> <<"X">>
      [] s = "" -> <<>>
      [] s = " No. " -> <<" ", "N", "o", ".", " ">>
      [] s = "undefined" -> <<"u", "n", "d", "e", "f", "i", "n", "e", "d">>
      [] s = "acta_compromiso_" -> <<"acta_compromiso_">>
      [] s = "tratamiento_datos_" -> <<"tratamiento_datos_">>
      [] s = ".pdf" -> <<".pdf">>

Truthy(v) == v # <<>> /\ v # UNDEF

\* `${v}` in a template literal
Interp(v) == IF v = UNDEF THEN Str("undefined") ELSE v

Digits == {"0", "1", "2", "3", "4", "5", "6", "7", "8", "9"}

IsDigit(c) == c \in Digits

\* \w of a JavaScript regular expression
IsWord(c) ==
    \/ IsDigit(c)
    \/ c \in {"A", "C", "E", "I", "N", "O", "P", "T", "X", "o", "r", "t", "_"}

\* [\.\s] of a JavaScript regular expression
IsSeparator(c) == c \in {".", " "}

-----------------------------------------------------------------------------
(* formatDocumentNumber *)

\* replace(/[\.\s]/, '') without the g flag: only the first separator goes
RECURSIVE StripSeparators_FirstOnly(_)
StripSeparators_FirstOnly(s) ==
    IF s = <<>> THEN <<>>
    ELSE IF IsSeparator(Head(s)) THEN Tail(s)
         ELSE <<Head(s)>> \o StripSeparators_FirstOnly(Tail(s))

\* replace(/[\.\s]/g, '')
RECURSIVE StripSeparators(_)
StripSeparators(s) ==
    IF s = <<>> THEN <<>>
    ELSE IF IsSeparator(Head(s)) THEN StripSeparators(Tail(s))
         ELSE <<Head(s)>> \o StripSeparators(Tail(s))

\* length of the longest run of digits of s that starts at index i (1-based)
RECURSIVE DigitRun(_, _)
DigitRun(s, i) ==
    IF i > Len(s) \/ ~IsDigit(s[i]) THEN 0 ELSE 1 + DigitRun(s, i + 1)

\* \B(?=(\d{3})+) without the (?!\d) that anchors the groups at the right
GroupBoundary_Unanchored(s, i) ==
    /\ i > 1
    /\ i <= Len(s)
    /\ IsWord(s[i - 1]) = IsWord(s[i])
    /\ DigitRun(s, i) >= 3

\* \B(?=(\d{3})+(?!\d)) matches the empty string before index i
GroupBoundary(s, i) ==
    /\ i > 1
    /\ i <= Len(s)
    /\ IsWord(s[i - 1]) = IsWord(s[i])
    /\ DigitRun(s, i) >= 3
    /\ DigitRun(s, i) % 3 = 0

RECURSIVE InsertDots(_, _)
InsertDots(s, i) ==
    IF i > Len(s) THEN <<>>
    ELSE (IF GroupBoundary(s, i) THEN <<".">> ELSE <<>>)
         \o <<s[i]>> \o InsertDots(s, i + 1)

formatDocumentNumber(documentNumber) ==
    IF ~Truthy(documentNumber) THEN <<>>
    ELSE InsertDots(StripSeparators(documentNumber), 1)


\* buildTipoYDocumentoAprendiz with the test of the type left out
buildTipoYDocumentoAprendiz_AnyType(tipoDocumento, numeroDocumento, cualTipo) ==
    LET formattedNumber == formatDocumentNumber(numeroDocumento)
    IN  IF Truthy(cualTipo)
        THEN Interp(cualTipo) \o Str(" No. ") \o formattedNumber
        ELSE Interp(tipoDocumento) \o Str(" No. ") \o formattedNumber

\* buildTipoYDocumentoAprendiz
buildTipoYDocumentoAprendiz(tipoDocumento, numeroDocumento, cualTipo) ==
    LET formattedNumber == formatDocumentNumber(numeroDocumento)
    IN  IF tipoDocumento = Str("Otro") /\ Truthy(cualTipo)
        THEN Interp(cualTipo) \o Str(" No. ") \o formattedNumber
        ELSE Interp(tipoDocumento) \o Str(" No. ") \o formattedNumber

\* buildTipoYDocumentoTutor
buildTipoYDocumentoTutor(tipoDocumento, numeroDocumento) ==
    LET formattedNumber == formatDocumentNumber(numeroDocumento)
    IN  Interp(tipoDocumento) \o Str(" No. ") \o formattedNumber

-----------------------------------------------------------------------------
(* The PDF form of a loaded template *)

\* A document under construction: the text fields of its form, the images
\* drawn on its pages, whether the form was flattened, the calls made on it
\* in order, and the exception a call let escape (<<>> while there is none).
LoadedDoc(tpl) ==
    [form |-> tpl.fields, drawn |-> <<>>, flattened |-> FALSE, log |-> <<>>,
     thrown |-> <<>>]

\* what String(error) is for the errors pdf-lib raises
LoadError == <<"Error: pdf-lib cannot parse the document">>

FlattenError == <<"Error: pdf-lib cannot flatten the form">>

NoSuchFieldError == <<"Error: pdf-lib finds no such text field">>

EmbedError == <<"Error: pdf-lib cannot embed the image">>

\* what pdf-lib raises wherever it meets a damaged object of a document,
\* while parsing it as well as while flattening its form
StructureError == <<"Error: pdf-lib expected an object of another type">>

\* String(error) of the error PDFDocument.load raises for a template
LoadErrorOf(tpl) == IF tpl.damaged THEN StructureError ELSE LoadError

\* String(error) of the error form.flatten / pdfDoc.save raise for a template
FlattenErrorOf(tpl) == IF tpl.damaged THEN StructureError ELSE FlattenError

\* characters that the standard font pdf-lib gives a form cannot encode
Unencodable == {"L-stroke", "O-double-acute"}

\* the characters among the values of a form that its font cannot encode
Offending(doc) ==
    {c \in Unencodable :
        \E f \in DOMAIN doc.form :
            \E i \in 1..Len(doc.form[f]) : doc.form[f][i] = c}

\* String(error) of what form.flatten() and pdfDoc.save() raise for a filled
\* document, <<>> when they succeed: the appearance of every field is drawn
\* first, and a value the font cannot encode makes pdf-lib raise an error
\* that quotes the character
FlattenThrown(doc, tpl) ==
    IF Offending(doc) # {}
    THEN <<"Error: WinAnsi cannot encode ", CHOOSE c \in Offending(doc) : TRUE>>
    ELSE IF ~tpl.flattenOk THEN FlattenErrorOf(tpl) ELSE <<>>

\* setTextField without its try/catch
setTextField_Throwing(doc, fieldName, value) ==
    IF fieldName \in DOMAIN doc.form
    THEN [doc EXCEPT !.form[fieldName] = IF Truthy(value) THEN value ELSE <<>>,
                     !.log = Append(@, <<"setText", fieldName>>)]
    ELSE [doc EXCEPT !.thrown = NoSuchFieldError]

\* setTextField: form.getTextField throws for a name the form does not
\* define; the catch swallows it.
setTextField(doc, fieldName, value) ==
    IF fieldName \in DOMAIN doc.form
    THEN [doc EXCEPT !.form[fieldName] = IF Truthy(value) THEN value ELSE <<>>,
                     !.log = Append(@, <<"setText", fieldName>>)]
    ELSE [doc EXCEPT !.log = Append(@, <<"miss", fieldName>>)]

\* a run of setTextField calls, in order, up to an exception that escapes
RECURSIVE setTextFields(_, _)
setTextFields(doc, writes) ==
    IF writes = <<>> \/ doc.thrown # <<>> THEN doc
    ELSE setTextFields(setTextField(doc, Head(writes)[1], Head(writes)[2]),
                       Tail(writes))

-----------------------------------------------------------------------------
(* insertSignatureImage *)

\* A signature payload: the MIME type of its data-URI prefix ("none" for
\* bare base64) and what its base64 part decodes to.
EmptySig == [mime |-> "none", bytes |-> "empty"]

SigTruthy(sig) == sig # EmptySig /\ sig # [mime |-> "undefined", bytes |-> "empty"]

\* replace(/^data:image\/(png|jpg|jpeg);base64,/, '') then Buffer.from(.., 'base64'):
\* a prefix the expression does not strip is decoded with the payload
ImageBytes(sig) ==
    IF sig.mime \in {"none", "png", "jpg", "jpeg"} THEN sig.bytes ELSE "junk"

\* base64Image.includes('data:image/png'): true of the prefix
\* "data:image/png;base64," and of a PNG data URI with parameters, which the
\* regular expression above does not strip
HasPngMarker(sig) == sig.mime \in {"png", "png;charset=binary"}

\* the decoder chosen by what the base64 part decodes to
Decoder_Sniffing(sig) == IF sig.bytes = "png" THEN "png" ELSE "jpg"

\* the decoder insertSignatureImage hands the bytes to
Decoder(sig) == IF HasPngMarker(sig) THEN "png" ELSE "jpg"

\* embedPng / embedJpg throw on bytes that are not an image of their format
EmbedOk(sig) == ImageBytes(sig) = Decoder(sig)

\* insertSignatureImage without its try/catch
insertSignatureImage_Throwing(doc, tpl, fieldName, base64Image) ==
    IF ~SigTruthy(base64Image)
    THEN [doc EXCEPT !.log = Append(@, <<"sigEmpty", fieldName>>)]
    ELSE IF ~EmbedOk(base64Image)
    THEN [doc EXCEPT !.thrown = EmbedError]
    ELSE IF fieldName \notin DOMAIN doc.form
    THEN [doc EXCEPT !.thrown = NoSuchFieldError]
    ELSE IF fieldName \in tpl.nowidget
    THEN [doc EXCEPT !.log = Append(@, <<"sigNoWidget", fieldName>>)]
    ELSE [doc EXCEPT !.drawn = Append(@, [field |-> fieldName,
                                          image |-> ImageBytes(base64Image),
                                          decoder |-> Decoder(base64Image)]),
                     !.log = Append(@, <<"drawImage", fieldName>>)]

\* insertSignatureImage without the test of widgets.length and without its
\* try/catch: widgets[0] is undefined and getRectangle throws
insertSignatureImage_NoWidgetThrows(doc, tpl, fieldName, base64Image) ==
    IF ~SigTruthy(base64Image)
    THEN [doc EXCEPT !.log = Append(@, <<"sigEmpty", fieldName>>)]
    ELSE IF ~EmbedOk(base64Image)
    THEN [doc EXCEPT !.log = Append(@, <<"sigError", fieldName>>)]
    ELSE IF fieldName \notin DOMAIN doc.form
    THEN [doc EXCEPT !.log = Append(@, <<"sigError", fieldName>>)]
    ELSE IF fieldName \in tpl.nowidget
    THEN [doc EXCEPT !.thrown = NoSuchFieldError]
    ELSE [doc EXCEPT !.drawn = Append(@, [field |-> fieldName,
                                          image |-> ImageBytes(base64Image),
                                          decoder |-> Decoder(base64Image)]),
                     !.log = Append(@, <<"drawImage", fieldName>>)]

\* insertSignatureImage: whatever its body throws, the catch logs and the
\* call returns
insertSignatureImage(doc, tpl, fieldName, base64Image) ==
    IF ~SigTruthy(base64Image)
    THEN [doc EXCEPT !.log = Append(@, <<"sigEmpty", fieldName>>)]
    ELSE IF ~EmbedOk(base64Image)
    THEN [doc EXCEPT !.log = Append(@, <<"sigError", fieldName>>)]
    ELSE IF fieldName \notin DOMAIN doc.form
    THEN [doc EXCEPT !.log = Append(@, <<"sigError", fieldName>>)]
    ELSE IF fieldName \in tpl.nowidget
    THEN [doc EXCEPT !.log = Append(@, <<"sigNoWidget", fieldName>>)]
    ELSE [doc EXCEPT !.drawn = Append(@, [field |-> fieldName,
                                          image |-> ImageBytes(base64Image),
                                          decoder |-> Decoder(base64Image)]),
                     !.log = Append(@, <<"drawImage", fieldName>>)]

\* pdfDoc.save() with the call to form.flatten() left out
FlattenAndSave_SaveOnly(doc) ==
    [doc EXCEPT !.log = @ \o << <<"save", "">> >>]

\* form.flatten() and pdfDoc.save()
FlattenAndSave(doc) ==
    [doc EXCEPT !.flattened = TRUE,
                !.log = @ \o << <<"flatten", "">>, <<"save", "">> >>]

-----------------------------------------------------------------------------
(* The numbers of insertSignatureImage *)

\* A JavaScript number is a binary floating-point value: m * 2^e with m odd
\* (or zero) and |m| < 2^MantissaBits.  Every operator of the language rounds
\* its exact result to the nearest such value, ties to the even mantissa.
RECURSIVE Pow2(_)
Pow2(k) == IF k <= 0 THEN 1 ELSE 2 * Pow2(k - 1)

Abs(n) == IF n < 0 THEN -n ELSE n

RECURSIVE Dyadic(_, _)
Dyadic(m, e) ==
    IF m = 0 THEN [m |-> 0, e |-> 0]
    ELSE IF m % 2 = 0 THEN Dyadic(m \div 2, e + 1)
    ELSE [m |-> m, e |-> e]

Num(n) == Dyadic(n, 0)

\* exact arithmetic on m * 2^e values
MinExp(a, b) == IF a.e < b.e THEN a.e ELSE b.e

Aligned(a, b) == a.m * Pow2(a.e - MinExp(a, b))

ExactSub(a, b) == Dyadic(Aligned(a, b) - Aligned(b, a), MinExp(a, b))

ExactAdd(a, b) == Dyadic(Aligned(a, b) + Aligned(b, a), MinExp(a, b))

ExactMul(a, b) == Dyadic(a.m * b.m, a.e + b.e)

Less(a, b) == Aligned(a, b) < Aligned(b, a)

LessEq(a, b) == Aligned(a, b) <= Aligned(b, a)

\* bring a / d into [2^(MantissaBits-1), 2^MantissaBits) by powers of two
RECURSIVE ScaleToMantissa(_, _, _)
ScaleToMantissa(a, d, k) ==
    IF a < Pow2(MantissaBits - 1) * d THEN ScaleToMantissa(2 * a, d, k - 1)
    ELSE IF a >= Pow2(MantissaBits) * d THEN ScaleToMantissa(a, 2 * d, k + 1)
    ELSE <<a, d, k>>

\* the number nearest to (n / d) * 2^e, for d > 0
RoundToNumber(n, d, e) ==
    IF n = 0 THEN Num(0)
    ELSE LET s == ScaleToMantissa(Abs(n), d, 0)
             q == s[1] \div s[2]
             r == s[1] % s[2]
             m == IF 2 * r > s[2] \/ (2 * r = s[2] /\ q % 2 = 1) THEN q + 1 ELSE q
         IN  Dyadic(IF n < 0 THEN -m ELSE m, e + s[3])

\* a / b, a * b, a - b, a + b of JavaScript (b # 0 in a / b)
NumDiv(a, b) ==
    RoundToNumber(IF b.m < 0 THEN -a.m ELSE a.m, Abs(b.m), a.e - b.e)

NumMul(a, b) == LET x == ExactMul(a, b) IN RoundToNumber(x.m, 1, x.e)

NumSub(a, b) == LET x == ExactSub(a, b) IN RoundToNumber(x.m, 1, x.e)

NumAdd(a, b) == LET x == ExactAdd(a, b) IN RoundToNumber(x.m, 1, x.e)

\* drawWidth and drawHeight with the height never clamped to the field
FittedSize_NoClamp(rect, image) ==
    LET fieldWidth == rect.width
        imageAspectRatio == NumDiv(Num(image.width), Num(image.height))
    IN  [width |-> fieldWidth, height |-> NumDiv(fieldWidth, imageAspectRatio)]

\* drawWidth and drawHeight: the field's width at the image's aspect ratio,
\* or the field's height at that ratio if that would be too tall
FittedSize(rect, image) ==
    LET fieldWidth == rect.width
        fieldHeight == rect.height
        imageAspectRatio == NumDiv(Num(image.width), Num(image.height))
        drawHeight == NumDiv(fieldWidth, imageAspectRatio)
    IN  IF Less(fieldHeight, drawHeight)
        THEN [width |-> NumMul(fieldHeight, imageAspectRatio),
              height |-> fieldHeight]
        ELSE [width |-> fieldWidth, height |-> drawHeight]

\* the options of page.drawImage with the free space put on one side only
DrawOptions_NotHalved(rect, size) ==
    [x |-> NumAdd(rect.x, NumSub(rect.width, size.width)),
     y |-> NumAdd(rect.y, NumSub(rect.height, size.height)),
     width |-> size.width,
     height |-> size.height]

\* the options of page.drawImage
DrawOptions(rect, size) ==
    [x |-> NumAdd(rect.x, NumDiv(NumSub(rect.width, size.width), Num(2))),
     y |-> NumAdd(rect.y, NumDiv(NumSub(rect.height, size.height), Num(2))),
     width |-> size.width,
     height |-> size.height]


-----------------------------------------------------------------------------
(* fillActaCompromiso and fillTratamientoDatos *)

\* A filler's outcome: a document output (buffer, filename) or a raised Error.
\* doc is the document as it stood when the filler ended.
Returned(doc, filename) ==
    [present |-> TRUE, ok |-> TRUE, doc |-> doc, filename |-> filename,
     error |-> <<>>]

Raised(doc, message) ==
    [present |-> TRUE, ok |-> FALSE, doc |-> doc, filename |-> <<>>,
     error |-> message]

\* undefined in a slot that holds a filler's outcome
Absent ==
    [present |-> FALSE, ok |-> FALSE,
     doc |-> [form |-> <<>>, drawn |-> <<>>, flattened |-> FALSE, log |-> <<>>,
              thrown |-> <<>>],
     filename |-> <<>>, error |-> <<>>]

tipoDocFields ==
    <<"tipo_tarjeta_aprendiz", "tipo_cedula_aprendiz", "tipo_CE_aprendiz",
      "tipo_otro_aprendiz">>

\* checkboxMap[tipo]: the indicator field of a document type, "" for a type
\* the map has no key for
checkboxMap(tipo) ==
    CASE tipo = Str("TI") -> "tipo_tarjeta_aprendiz"
      [] tipo = Str("CC") -> "tipo_cedula_aprendiz"
      [] tipo = Str("CE") -> "tipo_CE_aprendiz"
      [] tipo = Str("Otro") -> "tipo_otro_aprendiz"
      [] OTHER -> ""

\* the indicator writes without the clearing loop
IndicatorWrites_NoClear(d) ==
    LET fieldName == checkboxMap(d.tipo_documento_aprendiz)
    IN  IF fieldName # "" THEN << <<fieldName, Str("X")>> >> ELSE <<>>

\* clear the four indicators, then write "X" into the one of the type
IndicatorWrites(d) ==
    LET fieldName == checkboxMap(d.tipo_documento_aprendiz)
    IN  [i \in 1..Len(tipoDocFields) |-> <<tipoDocFields[i], <<>> >>]
        \o (IF fieldName # "" THEN << <<fieldName, Str("X")>> >> ELSE <<>>)

\* the guardian indicator writes with the sibling left alone
TutorIndicatorWrites_NoClear(d) ==
    IF d.tipo_documento_tutor = Str("CC")
    THEN << <<"cc_tutor", Str("X")>> >>
    ELSE IF d.tipo_documento_tutor = Str("CE")
    THEN << <<"ce_tutor", Str("X")>> >>
    ELSE <<>>

\* write "X" into cc_tutor or ce_tutor and clear the other
TutorIndicatorWrites(d) ==
    IF d.tipo_documento_tutor = Str("CC")
    THEN << <<"cc_tutor", Str("X")>>, <<"ce_tutor", <<>> >> >>
    ELSE IF d.tipo_documento_tutor = Str("CE")
    THEN << <<"cc_tutor", <<>> >>, <<"ce_tutor", Str("X")>> >>
    ELSE <<>>

\* the setTextField calls of fillActaCompromiso, revision 1.1.0
ActaWrites_v110(d) ==
    LET esMenorDeEdad == d.tipo_documento_aprendiz = Str("TI")
    IN  << <<"nombre_aprendiz", d.nombre_aprendiz>>,
           <<"numero_documento_aprendiz",
             formatDocumentNumber(d.numero_documento_aprendiz)>> >>
        \o IndicatorWrites(d)
        \o (IF d.tipo_documento_aprendiz = Str("Otro")
               /\ Truthy(d.cual_tipo_id_aprendiz)
            THEN << <<"cual_tipo_id_aprendiz", d.cual_tipo_id_aprendiz>> >>
            ELSE <<>>)
        \o << <<"programa_formacion", d.programa_formacion>>,
              <<"numero_ficha", d.numero_ficha>>,
              <<"centro_formacion", d.centro_formacion>> >>
        \o (IF esMenorDeEdad
            THEN << <<"tipo_y_documento_tutor",
                      buildTipoYDocumentoTutor(d.tipo_documento_tutor,
                                               d.numero_documento_tutor)>> >>
            ELSE << <<"tipo_y_documento_tutor", <<>> >> >>)
        \o << <<"dia", d.dia>>, <<"mes", d.mes>>, <<"anio", d.anio>> >>

\* the setTextField calls of fillActaCompromiso, src/lib/pdf-utils.ts
ActaWrites_lib(d) ==
    << <<"nombre_aprendiz", d.nombre_aprendiz>>,
       <<"tipo_y_documento_aprendiz",
         buildTipoYDocumentoAprendiz(d.tipo_documento_aprendiz,
                                     d.numero_documento_aprendiz,
                                     d.cual_tipo_id_aprendiz)>>,
       <<"numero_documento_aprendiz",
         formatDocumentNumber(d.numero_documento_aprendiz)>> >>
        \o IndicatorWrites(d)
        \o (IF d.tipo_documento_aprendiz = Str("Otro")
               /\ Truthy(d.cual_tipo_id_aprendiz)
            THEN << <<"cual_tipo_id_aprendiz", d.cual_tipo_id_aprendiz>> >>
            ELSE << <<"cual_tipo_id_aprendiz", <<>> >> >>)
        \o << <<"programa_formacion", d.programa_formacion>>,
              <<"numero_ficha", d.numero_ficha>>,
              <<"centro_formacion", d.centro_formacion>>,
              <<"tipo_y_documento_tutor",
                buildTipoYDocumentoTutor(d.tipo_documento_tutor,
                                         d.numero_documento_tutor)>>,
              <<"documento_tutor",
                formatDocumentNumber(d.numero_documento_tutor)>>,
              <<"municipio_documento_tutor", d.municipio_documento_tutor>>,
              <<"correo_electronico_tutor", d.correo_electronico_tutor>>,
              <<"direccion_contacto_tutor", d.direccion_contacto_tutor>>,
              <<"dia", d.dia>>, <<"mes", d.mes>>, <<"anio", d.anio>> >>

ActaWrites(r, d) == IF r = "v110" THEN ActaWrites_v110(d) ELSE ActaWrites_lib(d)

\* whether fillActaCompromiso calls insertSignatureImage for firma_tutor
ActaTutorSignature(r, d) ==
    IF r = "v110"
    THEN d.tipo_documento_aprendiz = Str("TI") /\ SigTruthy(d.firma_tutor)
    ELSE SigTruthy(d.firma_tutor)

\* the signature steps both fillers share
InsertSignatures(doc, tpl, d, withTutor) ==
    LET d1 == IF SigTruthy(d.firma_aprendiz) /\ doc.thrown = <<>>
              THEN insertSignatureImage(doc, tpl, "firma_aprendiz", d.firma_aprendiz)
              ELSE doc
    IN  IF withTutor /\ d1.thrown = <<>>
        THEN insertSignatureImage(d1, tpl, "firma_tutor", d.firma_tutor)
        ELSE d1

\* the message of the Error a failed PDFDocument.load ends up as
ActaLoadMessage(r, tpl) ==
    IF r = "v110"
    THEN <<"Error al generar Acta de Compromiso: ">> \o LoadErrorOf(tpl)
    ELSE <<"Error al generar Acta de Compromiso: ",
           "Error: No se pudo cargar el PDF base: ">> \o LoadErrorOf(tpl)

\* fillActaCompromiso naming its output by the formatted number
fillActaCompromiso_FormattedName(r, d, tpl) ==
    IF ~tpl.valid THEN Raised(Absent.doc, ActaLoadMessage(r, tpl))
    ELSE LET written == setTextFields(LoadedDoc(tpl), ActaWrites(r, d))
             signed == InsertSignatures(written, tpl, d, ActaTutorSignature(r, d))
         IN  IF signed.thrown # <<>>
             THEN Raised(signed,
                         <<"Error al generar Acta de Compromiso: ">> \o signed.thrown)
             ELSE IF FlattenThrown(signed, tpl) # <<>>
             THEN Raised(signed,
                         <<"Error al generar Acta de Compromiso: ">>
                         \o FlattenThrown(signed, tpl))
             ELSE Returned(FlattenAndSave(signed),
                           Str("acta_compromiso_")
                           \o formatDocumentNumber(d.numero_documento_aprendiz)
                           \o Str(".pdf"))

fillActaCompromiso(r, d, tpl) ==
    IF ~tpl.valid THEN Raised(Absent.doc, ActaLoadMessage(r, tpl))
    ELSE LET written == setTextFields(LoadedDoc(tpl), ActaWrites(r, d))
             signed == InsertSignatures(written, tpl, d, ActaTutorSignature(r, d))
         IN  IF signed.thrown # <<>>
             THEN Raised(signed,
                         <<"Error al generar Acta de Compromiso: ">> \o signed.thrown)
             ELSE IF FlattenThrown(signed, tpl) # <<>>
             THEN Raised(signed,
                         <<"Error al generar Acta de Compromiso: ">>
                         \o FlattenThrown(signed, tpl))
             ELSE Returned(FlattenAndSave(signed),
                           Str("acta_compromiso_")
                           \o Interp(d.numero_documento_aprendiz) \o Str(".pdf"))

\* fillTratamientoDatos with every value passed through formatDocumentNumber
TratamientoWrites_AllFormatted(d) ==
    << <<"fecha", d.fecha>>,
       <<"ciudad", d.ciudad>>,
       <<"regional", d.regional>>,
       <<"centro_formacion", d.centro_formacion>>,
       <<"programa_formacion", d.programa_formacion>>,
       <<"numero_ficha", formatDocumentNumber(d.numero_ficha)>>,
       <<"nombre_tutor", d.nombre_tutor>>,
       <<"tipo_y_documento_tutor",
         buildTipoYDocumentoTutor(d.tipo_documento_tutor,
                                  d.numero_documento_tutor)>> >>
    \o TutorIndicatorWrites(d)
    \o << <<"documento_tutor", formatDocumentNumber(d.numero_documento_tutor)>>,
          <<"municipio_documento_tutor", d.municipio_documento_tutor>>,
          <<"correo_electronico_tutor",
            formatDocumentNumber(d.correo_electronico_tutor)>>,
          <<"direccion_contacto_tutor", d.direccion_contacto_tutor>>,
          <<"nombre_aprendiz", d.nombre_aprendiz>>,
          <<"tipo_y_documento_aprendiz",
            buildTipoYDocumentoAprendiz(d.tipo_documento_aprendiz,
                                        d.numero_documento_aprendiz,
                                        d.cual_tipo_id_aprendiz)>>,
          <<"numero_documento_aprendiz",
            formatDocumentNumber(d.numero_documento_aprendiz)>> >>

\* the setTextField calls of fillTratamientoDatos (the same in both revisions)
TratamientoWrites(d) ==
    << <<"fecha", d.fecha>>,
       <<"ciudad", d.ciudad>>,
       <<"regional", d.regional>>,
       <<"centro_formacion", d.centro_formacion>>,
       <<"programa_formacion", d.programa_formacion>>,
       <<"numero_ficha", d.numero_ficha>>,
       <<"nombre_tutor", d.nombre_tutor>>,
       <<"tipo_y_documento_tutor",
         buildTipoYDocumentoTutor(d.tipo_documento_tutor,
                                  d.numero_documento_tutor)>> >>
    \o TutorIndicatorWrites(d)
    \o << <<"documento_tutor", formatDocumentNumber(d.numero_documento_tutor)>>,
          <<"municipio_documento_tutor", d.municipio_documento_tutor>>,
          <<"correo_electronico_tutor", d.correo_electronico_tutor>>,
          <<"direccion_contacto_tutor", d.direccion_contacto_tutor>>,
          <<"nombre_aprendiz", d.nombre_aprendiz>>,
          <<"tipo_y_documento_aprendiz",
            buildTipoYDocumentoAprendiz(d.tipo_documento_aprendiz,
                                        d.numero_documento_aprendiz,
                                        d.cual_tipo_id_aprendiz)>>,
          <<"numero_documento_aprendiz",
            formatDocumentNumber(d.numero_documento_aprendiz)>> >>

fillTratamientoDatos(d, tpl) ==
    IF ~tpl.valid
    THEN Raised(Absent.doc,
                <<"Error al generar Tratamiento de Datos: ",
                  "Error: No se pudo cargar el PDF base: ">> \o LoadErrorOf(tpl))
    ELSE LET written == setTextFields(LoadedDoc(tpl), TratamientoWrites(d))
             signed == InsertSignatures(written, tpl, d, SigTruthy(d.firma_tutor))
         IN  IF signed.thrown # <<>>
             THEN Raised(signed,
                         <<"Error al generar Tratamiento de Datos: ">> \o signed.thrown)
             ELSE IF FlattenThrown(signed, tpl) # <<>>
             THEN Raised(signed,
                         <<"Error al generar Tratamiento de Datos: ">>
                         \o FlattenThrown(signed, tpl))
             ELSE Returned(FlattenAndSave(signed),
                           Str("tratamiento_datos_")
                           \o Interp(d.numero_documento_aprendiz) \o Str(".pdf"))


-----------------------------------------------------------------------------
(* Inputs of generateDocuments *)

Revisions == {"v110", "lib"}

DocTypes == {Str("TI"), Str("CC"), Str("CE"), Str("Otro")}

\* signature payloads: PNG and JPEG data URIs with matching, mismatching and
\* non-image content, bare base64, a data URI of another type, the empty string
PngSig == [mime |-> "png", bytes |-> "png"]

JunkSig == [mime |-> "png", bytes |-> "junk"]

SigPayloads ==
    {EmptySig, PngSig, JunkSig,
     [mime |-> "jpeg", bytes |-> "jpg"],
     [mime |-> "jpg", bytes |-> "png"],
     [mime |-> "none", bytes |-> "jpg"],
     [mime |-> "none", bytes |-> "png"],
     [mime |-> "gif", bytes |-> "jpg"],
     [mime |-> "png;charset=binary", bytes |-> "png"]}

\* guardian records: complete (CC, CE, another type), all fields empty as the
\* form sends them for an adult, all fields missing from the request body
GuardianOf(tipo) ==
    [tipo_documento_tutor |-> tipo,
     numero_documento_tutor |-> <<"9", "8", "7", "6">>,
     nombre_tutor |-> <<"Maria Gonzalez">>,
     municipio_documento_tutor |-> <<"Popayan">>,
     correo_electronico_tutor |-> <<"maria", "@", "correo", ".", "co">>,
     direccion_contacto_tutor |-> <<"Calle 5 # 4-32">>]

EmptyGuardian ==
    [tipo_documento_tutor |-> <<>>, numero_documento_tutor |-> <<>>,
     nombre_tutor |-> <<>>, municipio_documento_tutor |-> <<>>,
     correo_electronico_tutor |-> <<>>, direccion_contacto_tutor |-> <<>>]

MissingGuardian ==
    [tipo_documento_tutor |-> UNDEF, numero_documento_tutor |-> UNDEF,
     nombre_tutor |-> UNDEF, municipio_documento_tutor |-> UNDEF,
     correo_electronico_tutor |-> UNDEF, direccion_contacto_tutor |-> UNDEF]

Guardians ==
    {GuardianOf(Str("CC")), GuardianOf(Str("CE")), GuardianOf(Str("TI")),
     EmptyGuardian, MissingGuardian}

OtherLabels == {<<>>, <<"P", "A">>}

DocNumbers == {<<"3", "4", "5", "6", "7", "8", "0">>, <<"5", "5", "5">>}

FullDocumentData(tipo, cual, numero, guardian, firmaAprendiz, firmaTutor) ==
    [nombre_aprendiz |-> <<"Juan Felipe Perez Garcia">>,
     tipo_documento_aprendiz |-> tipo,
     cual_tipo_id_aprendiz |-> cual,
     numero_documento_aprendiz |-> numero,
     programa_formacion |-> <<"Analisis y Desarrollo de Software">>,
     numero_ficha |-> <<"2", "7", "2", "5", "9", "9", "9">>,
     centro_formacion |-> <<"Centro de Comercio y Servicios">>,
     ciudad |-> <<"Popayan">>,
     regional |-> <<"Cauca">>,
     firma_aprendiz |-> firmaAprendiz,
     firma_tutor |-> firmaTutor,
     tipo_documento_tutor |-> guardian.tipo_documento_tutor,
     numero_documento_tutor |-> guardian.numero_documento_tutor,
     nombre_tutor |-> guardian.nombre_tutor,
     municipio_documento_tutor |-> guardian.municipio_documento_tutor,
     correo_electronico_tutor |-> guardian.correo_electronico_tutor,
     direccion_contacto_tutor |-> guardian.direccion_contacto_tutor,
     dia |-> <<"26">>, mes |-> <<"octubre">>, anio |-> <<"2025">>,
     fecha |-> <<"26 de octubre de 2025">>]

\* the field names the fillers look up ("anio" stands for the field "año")
SignatureFields == {"firma_aprendiz", "firma_tutor"}

ActaIndicators == {tipoDocFields[i] : i \in 1..Len(tipoDocFields)}

ActaFieldNames ==
    {"nombre_aprendiz", "tipo_y_documento_aprendiz", "numero_documento_aprendiz",
     "cual_tipo_id_aprendiz", "programa_formacion", "numero_ficha",
     "centro_formacion", "tipo_y_documento_tutor", "documento_tutor",
     "municipio_documento_tutor", "correo_electronico_tutor",
     "direccion_contacto_tutor", "dia", "mes", "anio"}
    \cup ActaIndicators \cup SignatureFields

TutorIndicators == {"cc_tutor", "ce_tutor"}

TratamientoFieldNames ==
    {"fecha", "ciudad", "regional", "centro_formacion", "programa_formacion",
     "numero_ficha", "nombre_tutor", "tipo_y_documento_tutor", "documento_tutor",
     "municipio_documento_tutor", "correo_electronico_tutor",
     "direccion_contacto_tutor", "nombre_aprendiz", "tipo_y_documento_aprendiz",
     "numero_documento_aprendiz"}
    \cup TutorIndicators \cup SignatureFields

\* A template: whether PDFDocument.load parses it, whether its form can be
\* flattened, whether what fails on it fails on a damaged object, the text
\* fields it defines with the values they hold, and the fields that have no
\* widget.  Fields in stale hold "X".
Template(names, absent, stale, nowidget, valid, flattenOk) ==
    [valid |-> valid, flattenOk |-> flattenOk, damaged |-> FALSE,
     fields |-> [n \in names \ absent |-> IF n \in stale THEN Str("X") ELSE <<>>],
     nowidget |-> nowidget]

Damaged(tpl) == [tpl EXCEPT !.damaged = TRUE]

GoodActa == Template(ActaFieldNames, {}, {}, {}, TRUE, TRUE)

GoodTratamiento == Template(TratamientoFieldNames, {}, {}, {}, TRUE, TRUE)

\* a good template, one that does not parse, one whose form cannot be
\* flattened, and the last two failing on a damaged object
Conditions(names) ==
    {Template(names, {}, {}, {}, TRUE, TRUE),
     Template(names, {}, {}, {}, FALSE, TRUE),
     Template(names, {}, {}, {}, TRUE, FALSE),
     Damaged(Template(names, {}, {}, {}, FALSE, TRUE)),
     Damaged(Template(names, {}, {}, {}, TRUE, FALSE))}

AtMost(S, n) == {T \in SUBSET S : Cardinality(T) <= n}

\* the families of invocations the model runs
FailureInputs ==
    {[data |-> FullDocumentData(t, <<>>, <<"5", "5", "5">>, g, fa, ft),
      acta |-> a, trat |-> tr] :
        t \in DocTypes, g \in {GuardianOf(Str("CC")), EmptyGuardian},
        fa \in {EmptySig, PngSig, JunkSig}, ft \in {EmptySig, PngSig, JunkSig},
        a \in Conditions(ActaFieldNames), tr \in Conditions(TratamientoFieldNames)}

SignatureInputs ==
    {[data |-> FullDocumentData(t, <<>>, <<"5", "5", "5">>, GuardianOf(Str("CC")),
                                fa, ft),
      acta |-> Template(ActaFieldNames, {}, {}, nw, TRUE, TRUE),
      trat |-> Template(TratamientoFieldNames, {}, {}, nw, TRUE, TRUE)] :
        t \in {Str("TI"), Str("CC")}, fa \in SigPayloads, ft \in SigPayloads,
        nw \in SUBSET SignatureFields}

StaleActaInputs ==
    {[data |-> FullDocumentData(t, c, n, g, PngSig, PngSig),
      acta |-> Template(ActaFieldNames, {}, s \cup o, {}, TRUE, TRUE),
      trat |-> GoodTratamiento] :
        t \in DocTypes, c \in OtherLabels, n \in DocNumbers,
        g \in {GuardianOf(Str("CE")), MissingGuardian},
        s \in SUBSET ActaIndicators,
        o \in {{}, ActaFieldNames \ ActaIndicators}}

StaleTratamientoInputs ==
    {[data |-> FullDocumentData(Str("TI"), <<>>, n, g, PngSig, PngSig),
      acta |-> GoodActa,
      trat |-> Template(TratamientoFieldNames, {}, s \cup o, {}, TRUE, TRUE)] :
        n \in DocNumbers, g \in Guardians,
        s \in SUBSET TutorIndicators,
        o \in {{}, TratamientoFieldNames \ TutorIndicators}}

AbsentFieldInputs ==
    {[data |-> FullDocumentData(t, <<"P", "A">>, <<"5", "5", "5">>,
                                GuardianOf(Str("CC")), PngSig, PngSig),
      acta |-> Template(ActaFieldNames, ab, {}, {}, TRUE, TRUE),
      trat |-> Template(TratamientoFieldNames, ab, {}, {}, TRUE, TRUE)] :
        t \in {Str("TI"), Str("CC"), Str("Otro")},
        ab \in AtMost(ActaFieldNames \cup TratamientoFieldNames, MaxAbsent)}

\* names with and without a character outside the font's encoding
Names ==
    {<<"Juan Felipe Perez Garcia">>, <<"L-stroke", "ukasz Perez">>,
     <<"Gy", "O-double-acute", "z", "O-double-acute", " Perez">>}

EncodingInputs ==
    {[data |-> [FullDocumentData(t, <<>>, n, GuardianOf(Str("CC")), PngSig, PngSig)
                  EXCEPT !.nombre_aprendiz = name, !.nombre_tutor = tutor],
      acta |-> a, trat |-> tr] :
        t \in {Str("TI"), Str("CC")}, n \in DocNumbers,
        name \in Names, tutor \in Names \cup {<<"Maria Gonzalez">>},
        a \in Conditions(ActaFieldNames),
        tr \in {GoodTratamiento,
                Template(TratamientoFieldNames, {}, {}, {}, FALSE, TRUE)}}

Inputs ==
    FailureInputs \cup SignatureInputs \cup StaleActaInputs
    \cup StaleTratamientoInputs \cup AbsentFieldInputs \cup EncodingInputs

-----------------------------------------------------------------------------
(* generateDocuments *)

\* the discriminant with "anything but a cedula de ciudadania" for a minor
IsMenorDeEdad_NotCC(d) == d.tipo_documento_aprendiz # Str("CC")

\* const esMenorDeEdad = data.tipo_documento_aprendiz === 'TI'
IsMenorDeEdad(d) == d.tipo_documento_aprendiz = Str("TI")

IdleHarness ==
    /\ fmtIn = <<>>
    /\ fmtOut = <<>>
    /\ fmtOut2 = <<>>
    /\ lblIn = <<>>
    /\ lblOut = <<>>
    /\ sigIn = <<>>
    /\ sigOut = <<>>
    /\ postIn = <<>>
    /\ postOut = <<>>
    /\ ui = <<>>

Init ==
    /\ rev \in Revisions
    /\ \E in \in Inputs :
          /\ data = in.data
          /\ actaTpl = in.acta
          /\ tratTpl = in.trat
    /\ pc = "start"
    /\ actaResult = Absent
    /\ esMenor = "unset"
    /\ tratResult = Absent
    /\ result = [returned |-> FALSE, actaCompromiso |-> Absent,
                 tratamientoDatos |-> Absent]
    /\ error = <<>>
    /\ trace = <<>>
    /\ IdleHarness

\* PASO 1 with the filler's error logged and generation carried on
RunActa_ErrorSwallowed ==
    /\ pc = "start"
    /\ actaResult' = fillActaCompromiso(rev, data, actaTpl)
    /\ pc' = "discriminant"
    /\ trace' = Append(trace, "fillActaCompromiso")
    /\ UNCHANGED <<rev, data, actaTpl, tratTpl, esMenor, tratResult, result,
                   error, fmtVars>>

\* PASO 1: const actaResult = await fillActaCompromiso(data, actaPdfBuffer)
RunActa ==
    /\ pc = "start"
    /\ LET out == fillActaCompromiso(rev, data, actaTpl)
       IN  /\ actaResult' = out
           /\ pc' = IF out.ok THEN "discriminant" ELSE "catch"
    /\ trace' = Append(trace, "fillActaCompromiso")
    /\ UNCHANGED <<rev, data, actaTpl, tratTpl, esMenor, tratResult, result,
                   error, fmtVars>>

\* PASO 2 hoisted above PASO 1
EvalDiscriminant_Hoisted ==
    /\ pc \in {"start", "discriminant"}
    /\ esMenor' = IF IsMenorDeEdad(data) THEN "yes" ELSE "no"
    /\ pc' = IF IsMenorDeEdad(data) THEN "tratamiento" ELSE "build"
    /\ trace' = Append(trace, "esMenorDeEdad")
    /\ UNCHANGED <<rev, data, actaTpl, tratTpl, actaResult, tratResult, result,
                   error, fmtVars>>

\* PASO 2 with the data-treatment document filled for every applicant
EvalDiscriminant_AlwaysTratamiento ==
    /\ pc = "discriminant"
    /\ esMenor' = IF IsMenorDeEdad(data) THEN "yes" ELSE "no"
    /\ pc' = "tratamiento"
    /\ trace' = Append(trace, "esMenorDeEdad")
    /\ UNCHANGED <<rev, data, actaTpl, tratTpl, actaResult, tratResult, result,
                   error, fmtVars>>

\* PASO 2: the age discriminant
EvalDiscriminant ==
    /\ pc = "discriminant"
    /\ esMenor' = IF IsMenorDeEdad(data) THEN "yes" ELSE "no"
    /\ pc' = IF IsMenorDeEdad(data) THEN "tratamiento" ELSE "build"
    /\ trace' = Append(trace, "esMenorDeEdad")
    /\ UNCHANGED <<rev, data, actaTpl, tratTpl, actaResult, tratResult, result,
                   error, fmtVars>>

\* PASO 3 with the filler's error logged and the commitment document returned
RunTratamiento_ErrorSwallowed ==
    /\ pc = "tratamiento"
    /\ tratResult' = fillTratamientoDatos(data, tratTpl)
    /\ pc' = "build"
    /\ trace' = Append(trace, "fillTratamientoDatos")
    /\ UNCHANGED <<rev, data, actaTpl, tratTpl, actaResult, esMenor, result,
                   error, fmtVars>>

\* PASO 3: tratamientoResult = await fillTratamientoDatos(data, tratamientoPdfBuffer)
RunTratamiento ==
    /\ pc = "tratamiento"
    /\ LET out == fillTratamientoDatos(data, tratTpl)
       IN  /\ tratResult' = out
           /\ pc' = IF out.ok THEN "build" ELSE "catch"
    /\ trace' = Append(trace, "fillTratamientoDatos")
    /\ UNCHANGED <<rev, data, actaTpl, tratTpl, actaResult, esMenor, result,
                   error, fmtVars>>

\* PASO 4: build the GeneratedDocuments and return it
Return ==
    /\ pc = "build"
    /\ result' = [returned |-> TRUE, actaCompromiso |-> actaResult,
                  tratamientoDatos |-> tratResult]
    /\ pc' = "returned"
    /\ trace' = Append(trace, "return")
    /\ UNCHANGED <<rev, data, actaTpl, tratTpl, actaResult, esMenor, tratResult,
                   error, fmtVars>>

\* catch (error) { ...; throw error }
Rethrow ==
    /\ pc = "catch"
    /\ error' = IF actaResult.ok THEN tratResult.error ELSE actaResult.error
    /\ pc' = "raised"
    /\ trace' = Append(trace, "throw")
    /\ UNCHANGED <<rev, data, actaTpl, tratTpl, actaResult, esMenor, tratResult,
                   result, fmtVars>>

Next == RunActa \/ EvalDiscriminant \/ RunTratamiento \/ Return \/ Rethrow

Spec == Init /\ [][Next]_vars


-----------------------------------------------------------------------------
(* The formatters on their own: formatDocumentNumber applied to a string and
   again to its own output, and the two label builders applied to one input *)

SeqsUpTo(alphabet, n) == UNION {[1..k -> alphabet] : k \in 0..n}

\* digit-only document numbers
DigitStrings == SeqsUpTo({"0", "7"}, MaxDigits)

\* document numbers typed with separators
MixedStrings == SeqsUpTo({"0", "7", ".", " "}, MaxMixed)

LabelInputs ==
    {<<t, n, c>> : t \in DocTypes,
                   n \in DocNumbers \cup {<<>>, <<"1", ".", "2", "3", "4">>},
                   c \in OtherLabels \cup {UNDEF}}

IdleGeneration ==
    /\ rev = "v110"
    /\ data = FullDocumentData(Str("CC"), <<>>, <<>>, EmptyGuardian,
                               EmptySig, EmptySig)
    /\ actaTpl = GoodActa
    /\ tratTpl = GoodTratamiento
    /\ actaResult = Absent
    /\ esMenor = "unset"
    /\ tratResult = Absent
    /\ result = [returned |-> FALSE, actaCompromiso |-> Absent,
                 tratamientoDatos |-> Absent]
    /\ error = <<>>
    /\ trace = <<>>

InitFmt ==
    /\ IdleGeneration
    /\ \/ /\ pc = "fmt0"
          /\ fmtIn \in DigitStrings \cup MixedStrings
          /\ lblIn = <<>>
       \/ /\ pc = "lbl0"
          /\ fmtIn = <<>>
          /\ lblIn \in LabelInputs
    /\ fmtOut = <<>>
    /\ fmtOut2 = <<>>
    /\ lblOut = <<>>
    /\ sigIn = <<>>
    /\ sigOut = <<>>
    /\ postIn = <<>>
    /\ postOut = <<>>
    /\ ui = <<>>

FormatOnce ==
    /\ pc = "fmt0"
    /\ fmtOut' = formatDocumentNumber(fmtIn)
    /\ pc' = "fmt1"
    /\ UNCHANGED <<genVars, fmtIn, fmtOut2, lblIn, lblOut, sigIn, sigOut, webVars>>

FormatAgain ==
    /\ pc = "fmt1"
    /\ fmtOut2' = formatDocumentNumber(fmtOut)
    /\ pc' = "fmt2"
    /\ UNCHANGED <<genVars, fmtIn, fmtOut, lblIn, lblOut, sigIn, sigOut, webVars>>

BuildLabels ==
    /\ pc = "lbl0"
    /\ lblOut' = <<buildTipoYDocumentoAprendiz(lblIn[1], lblIn[2], lblIn[3]),
                   buildTipoYDocumentoTutor(lblIn[1], lblIn[2])>>
    /\ pc' = "lbl1"
    /\ UNCHANGED <<genVars, fmtIn, fmtOut, fmtOut2, lblIn, sigIn, sigOut, webVars>>

NextFmt == FormatOnce \/ FormatAgain \/ BuildLabels

SpecFmt == InitFmt /\ [][NextFmt]_vars

-----------------------------------------------------------------------------
(* The placement of a signature on its own: the size and the position that
   insertSignatureImage computes for one widget rectangle and one image *)

\* rectangle sides and coordinates: whole and fractional numbers
Sides == {Num(n) : n \in 1..MaxSide} \cup {Dyadic(3, -1), Dyadic(13, -2)}

Coordinates == {Num(0), Num(3), Dyadic(9, -1), Num(24)}

\* a field so far from the origin that the spacing of the numbers there
\* (4) is of the size of the free space beside the image
FarGeometry ==
    [rect |-> [x |-> Num((Pow2(MantissaBits - 1) + 1) * 4), y |-> Num(0),
               width |-> Num(5),
               height |-> Dyadic(Pow2(MantissaBits - 1) + 1, 1 - MantissaBits)],
     image |-> [width |-> 1, height |-> 1]]

SignatureGeometries ==
    {[rect |-> [x |-> x, y |-> y, width |-> w, height |-> h],
      image |-> [width |-> iw, height |-> ih]] :
        x \in Coordinates, y \in {Num(0), Dyadic(9, -1)},
        w \in Sides, h \in Sides, iw \in 1..MaxPixels, ih \in 1..MaxPixels}
    \cup {FarGeometry}

InitSig ==
    /\ IdleGeneration
    /\ pc = "sig0"
    /\ fmtIn = <<>>
    /\ fmtOut = <<>>
    /\ fmtOut2 = <<>>
    /\ lblIn = <<>>
    /\ lblOut = <<>>
    /\ sigIn \in SignatureGeometries
    /\ sigOut = <<>>
    /\ postIn = <<>>
    /\ postOut = <<>>
    /\ ui = <<>>

\* from widget.getRectangle() to page.drawImage(image, {...})
DrawSignature ==
    /\ pc = "sig0"
    /\ sigOut' = DrawOptions(sigIn.rect, FittedSize(sigIn.rect, sigIn.image))
    /\ pc' = "sig1"
    /\ UNCHANGED <<genVars, fmtIn, fmtOut, fmtOut2, lblIn, lblOut, sigIn, webVars>>

NextSig == DrawSignature

SpecSig == InitSig /\ [][NextSig]_vars

-----------------------------------------------------------------------------
(* POST /api/generar-formatos: validation of the body, assembly of the data
   record, the call of generateDocuments and the response.  Two revisions
   of the route: "v200" (version 2.0.0) and "route" (app/api/generar-formatos) *)

RouteRevisions == {"v200", "route"}

\* the value of a signature property the body does not have
AbsentSig == [mime |-> "undefined", bytes |-> "empty"]

\* generateDocuments as one call: the result it returns or the error it raises
generateDocuments(r, d, acta, trat) ==
    LET actaOut == fillActaCompromiso(r, d, acta)
        tratOut == fillTratamientoDatos(d, trat)
        raised(message) ==
            [returned |-> FALSE, actaCompromiso |-> Absent,
             tratamientoDatos |-> Absent, error |-> message]
    IN  IF ~actaOut.ok THEN raised(actaOut.error)
        ELSE IF ~IsMenorDeEdad(d)
        THEN [returned |-> TRUE, actaCompromiso |-> actaOut,
              tratamientoDatos |-> Absent, error |-> <<>>]
        ELSE IF ~tratOut.ok THEN raised(tratOut.error)
        ELSE [returned |-> TRUE, actaCompromiso |-> actaOut,
              tratamientoDatos |-> tratOut, error |-> <<>>]

\* const requiredUserFields
requiredUserFields(route) ==
    IF route = "v200" THEN <<"firma_aprendiz">>
    ELSE <<"firma_aprendiz", "firma_tutor", "tipo_documento_tutor",
           "numero_documento_tutor", "nombre_tutor">>

\* !userPayload[field]
Falsy(body, field) ==
    IF field \in SignatureFields THEN ~SigTruthy(body[field])
    ELSE ~Truthy(body[field])

\* the first required field the loop finds falsy, "" when there is none
RECURSIVE FirstMissing(_, _)
FirstMissing(body, fields) ==
    IF fields = <<>> THEN ""
    ELSE IF Falsy(body, Head(fields)) THEN Head(fields)
    ELSE FirstMissing(body, Tail(fields))

\* const aprendizDataSimulado (accents left out of the texts)
aprendizDataSimulado(route) ==
    [nombre_aprendiz |-> <<"Juan Felipe Perez Garcia">>,
     tipo_documento_aprendiz |-> Str("TI"),
     cual_tipo_id_aprendiz |-> <<>>,
     numero_documento_aprendiz |->
         IF route = "v200" THEN <<"3", "4", "5", "6", "7", "8", "0">>
         ELSE <<"3", "2", "2", "3", "4", "5", "6", "7", "8", "0">>,
     programa_formacion |-> <<"Tecnologia en Analisis y Desarrollo de Software">>,
     numero_ficha |-> <<"7", "7", "2", "5", "9", "9", "9">>,
     centro_formacion |-> <<"Centro de Comercio y Servicios">>,
     ciudad |-> <<"Popayan">>,
     regional |-> <<"Cauca">>]

mesesEs ==
    <<"enero", "febrero", "marzo", "abril", "mayo", "junio", "julio", "agosto",
      "septiembre", "octubre", "noviembre", "diciembre">>

DigitChar(n) == <<"0", "1", "2", "3", "4", "5", "6", "7", "8", "9">>[n + 1]

\* calculateCurrentDate for the clock reading [date, month, year]
calculateCurrentDate(ahora) ==
    LET dia == <<DigitChar(ahora.date \div 10), DigitChar(ahora.date % 10)>>
        mes == <<mesesEs[ahora.month + 1]>>
        anio == <<DigitChar(ahora.year \div 1000),
                  DigitChar((ahora.year \div 100) % 10),
                  DigitChar((ahora.year \div 10) % 10),
                  DigitChar(ahora.year % 10)>>
    IN  [dia |-> dia, mes |-> mes, anio |-> anio,
         fecha |-> dia \o <<" de ">> \o mes \o <<" de ">> \o anio]

ApplicantKeys == DOMAIN aprendizDataSimulado("v200")

DateKeys == {"dia", "mes", "anio", "fecha"}

\* the properties a body of the model may have
BodyKeys ==
    {"firma_aprendiz", "firma_tutor", "tipo_documento_tutor",
     "numero_documento_tutor", "nombre_tutor", "municipio_documento_tutor",
     "correo_electronico_tutor", "direccion_contacto_tutor",
     "tipo_documento_aprendiz", "numero_documento_aprendiz", "fecha"}

\* whether the body has the property
HasKey(body, k) ==
    /\ k \in DOMAIN body
    /\ IF k \in SignatureFields THEN body[k] # AbsentSig ELSE body[k] # UNDEF

\* const fullData = { ...aprendizDataSimulado, ...userPayload, ...calculatedData }
fullDataOf(aprendiz, userPayload, calculatedData) ==
    [k \in ApplicantKeys \cup BodyKeys \cup DateKeys |->
        IF k \in DateKeys THEN calculatedData[k]
        ELSE IF HasKey(userPayload, k) THEN userPayload[k]
        ELSE IF k \in ApplicantKeys THEN aprendiz[k]
        ELSE userPayload[k]]

\* the body of the 500 response of POST's outer catch
InternalErrorBody(nodeEnv, message) ==
    [error |-> <<"Error interno del servidor al generar documentos">>,
     details |-> IF nodeEnv = "development" THEN <<"Error: ">> \o message
                 ELSE UNDEF]

\* a response that carries an error text; assembled tells whether fullData
\* was built before the handler returned
Rejected(status, message, details, called, assembled, full) ==
    [status |-> status, error |-> message, details |-> details,
     success |-> FALSE, acta_compromiso |-> UNDEF, tratamiento_datos |-> UNDEF,
     aprendiz |-> UNDEF, tutor |-> UNDEF, called |-> called,
     assembled |-> assembled, fullData |-> full]

\* POST: the response, whether generateDocuments was called and with what
PostResponse(r, in) ==
    LET missing == FirstMissing(in.body, requiredUserFields(in.route))
        full == fullDataOf(aprendizDataSimulado(in.route), in.body,
                           calculateCurrentDate(in.ahora))
        docs == generateDocuments(r, full, in.acta, in.trat)
        body500 == InternalErrorBody(in.nodeEnv, docs.error)
    IN  IF ~in.parses
        THEN Rejected(400, <<"Datos invalidos en el request body">>, UNDEF,
                      FALSE, FALSE, full)
        ELSE IF missing # ""
        THEN Rejected(400, <<"Campo obligatorio faltante: ", missing>>, UNDEF,
                      FALSE, FALSE, full)
        ELSE IF ~in.readable
        THEN Rejected(500,
                      <<"Error al cargar los PDFs base. Verifica que existan en /public">>,
                      UNDEF, FALSE, TRUE, full)
        ELSE IF ~docs.returned
        THEN Rejected(500, body500.error, body500.details, TRUE, TRUE, full)
        ELSE [status |-> 200, error |-> UNDEF, details |-> UNDEF,
              success |-> TRUE,
              acta_compromiso |-> docs.actaCompromiso.filename,
              tratamiento_datos |->
                  IF docs.tratamientoDatos.present
                  THEN docs.tratamientoDatos.filename ELSE UNDEF,
              aprendiz |-> full.nombre_aprendiz, tutor |-> full.nombre_tutor,
              called |-> TRUE, assembled |-> TRUE, fullData |-> full]

\* guardian parts of a body: complete, complete but for the municipality,
\* every field empty, every field missing
GuardianParts ==
    {GuardianOf(Str("CC")),
     [GuardianOf(Str("CE")) EXCEPT !.municipio_documento_tutor = <<>>],
     EmptyGuardian, MissingGuardian}

\* the bodies of the model: user fields, with and without properties that
\* carry the names of applicant and date fields
Bodies ==
    {[k \in BodyKeys |->
        CASE k = "firma_aprendiz" -> fa
          [] k = "firma_tutor" -> ft
          [] k = "tipo_documento_aprendiz" -> tipo
          [] k = "numero_documento_aprendiz" -> numero
          [] k = "fecha" -> fecha
          [] OTHER -> g[k]] :
        fa \in {PngSig, EmptySig, AbsentSig}, ft \in {PngSig, EmptySig, AbsentSig},
        g \in GuardianParts, tipo \in {UNDEF, Str("CC"), Str("TI")},
        numero \in {UNDEF, <<"9", "9", "9">>},
        fecha \in {UNDEF, <<"1 de enero de 1999">>}}

Clocks == {[date |-> 5, month |-> 0, year |-> 2026],
           [date |-> 26, month |-> 9, year |-> 2025]}

ParsedInputs ==
    {[route |-> route, parses |-> TRUE, body |-> body, nodeEnv |-> env,
      readable |-> readable, ahora |-> ahora, acta |-> a, trat |-> t] :
        route \in RouteRevisions, body \in Bodies,
        env \in {"development", "production"}, readable \in BOOLEAN,
        ahora \in Clocks,
        a \in {GoodActa},
        t \in {GoodTratamiento,
               Template(TratamientoFieldNames, {}, {}, {}, FALSE, TRUE)}}

\* request.json() throws for the requests with parses = FALSE
PostInputs ==
    ParsedInputs
    \cup {[in EXCEPT !.parses = FALSE] :
            in \in {p \in ParsedInputs : /\ p.body.fecha = UNDEF
                                         /\ p.body.firma_tutor = PngSig}}

InitPost ==
    /\ rev \in Revisions
    /\ data = FullDocumentData(Str("CC"), <<>>, <<>>, EmptyGuardian,
                               EmptySig, EmptySig)
    /\ actaTpl = GoodActa
    /\ tratTpl = GoodTratamiento
    /\ actaResult = Absent
    /\ esMenor = "unset"
    /\ tratResult = Absent
    /\ result = [returned |-> FALSE, actaCompromiso |-> Absent,
                 tratamientoDatos |-> Absent]
    /\ error = <<>>
    /\ trace = <<>>
    /\ pc = "post0"
    /\ fmtIn = <<>> /\ fmtOut = <<>> /\ fmtOut2 = <<>>
    /\ lblIn = <<>> /\ lblOut = <<>>
    /\ sigIn = <<>> /\ sigOut = <<>>
    /\ postIn \in PostInputs
    /\ postOut = <<>>
    /\ ui = <<>>

\* export async function POST(request)
POST ==
    /\ pc = "post0"
    /\ postOut' = PostResponse(rev, postIn)
    /\ pc' = "post1"
    /\ UNCHANGED <<genVars, fmtIn, fmtOut, fmtOut2, lblIn, lblOut, sigIn, sigOut,
                   postIn, ui>>

NextPost == POST

SpecPost == InitPost /\ [][NextPost]_vars

-----------------------------------------------------------------------------
(* FormularioGeneradorPDF: the wizard that collects the signatures and the
   guardian's data and sends the request.  ui is the state of the component
   as of its last render, with the timers that are armed (in the order they
   will fire: all have the same delay of 300 ms), the number of requests that
   await their response and the body of the latest of them.
   A click handler reads the state of the render; what runs after an await
   reads what the handler captured. *)

FormFields ==
    {"nombre_tutor", "tipo_documento_tutor", "numero_documento_tutor",
     "municipio_documento_tutor", "correo_electronico_tutor",
     "direccion_contacto_tutor"}

\* String.prototype.trim
Trim(s) ==
    LET RECURSIVE TrimStart(_)
        TrimStart(t) ==
            IF t # <<>> /\ Head(t) = " " THEN TrimStart(Tail(t)) ELSE t
        RECURSIVE TrimEnd(_)
        TrimEnd(t) ==
            IF t # <<>> /\ t[Len(t)] = " "
            THEN TrimEnd(SubSeq(t, 1, Len(t) - 1))
            ELSE t
    IN  TrimEnd(TrimStart(s))

\* /^[^\s@]+@[^\s@]+\.[^\s@]+$/.test(email)
isValidEmail(email) ==
    LET \* [^\s@]+ matches email[a..b]
        Run(a, b) == a <= b /\ \A i \in a..b : email[i] \notin {" ", "@"}
    IN  \E i \in 1..Len(email) : \E j \in 1..Len(email) :
            /\ i < j
            /\ email[i] = "@"
            /\ email[j] = "."
            /\ Run(1, i - 1)
            /\ Run(i + 1, j - 1)
            /\ Run(j + 1, Len(email))

\* useState({ nombre_tutor: '', ... })
EmptyFormData == [f \in FormFields |-> <<>>]

\* validateStep1 with the values goToStep captured: "" or the error it sets
validateStep1(c) ==
    IF c.esMenorDeEdad # "true" THEN ""
    ELSE IF ~SigTruthy(c.firmaAprendiz) THEN "guarde la firma del aprendiz"
    ELSE ""

\* validateStep2 with the values goToStep captured: "" or the error it sets
validateStep2(c) ==
    LET isValid == \A f \in FormFields :
                       Truthy(c.formData[f]) /\ Len(Trim(c.formData[f])) > 0
        email == c.formData["correo_electronico_tutor"]
    IN  IF Truthy(email) /\ ~isValidEmail(email)
        THEN "ingrese un correo electronico valido"
        ELSE IF ~isValid THEN "complete todos los campos requeridos"
        ELSE ""

\* what the part of goToStep after its await does: "" or the error it sets
goToStepError(c) ==
    IF c.step = 2 /\ validateStep1(c) # "" THEN validateStep1(c)
    ELSE IF c.step = 3 /\ c.esMenorDeEdad = "true"
    THEN IF validateStep2(c) # "" THEN validateStep2(c)
         ELSE IF ~SigTruthy(c.firmaAprendiz) THEN "guarde la firma del aprendiz"
         ELSE ""
    ELSE ""

\* const payload of submitForm
PayloadOf(u) ==
    IF u.esMenorDeEdad = "true"
    THEN [f \in FormFields |->
             IF f = "tipo_documento_tutor" THEN u.formData[f]
             ELSE Trim(u.formData[f])]
         @@ [firma_aprendiz |-> u.firmaAprendiz, firma_tutor |-> u.firmaTutor]
    ELSE [f \in FormFields |-> <<>>]
         @@ [firma_aprendiz |-> u.firmaAprendiz, firma_tutor |-> EmptySig]

\* the error the signature tests of submitForm set, "" when they pass
submitFormError(u) ==
    IF u.esMenorDeEdad = "true"
       /\ (~SigTruthy(u.firmaAprendiz) \/ ~SigTruthy(u.firmaTutor))
    THEN "capture ambas firmas"
    ELSE IF u.esMenorDeEdad # "true" /\ ~SigTruthy(u.firmaAprendiz)
    THEN "capture la firma del aprendiz"
    ELSE ""

\* what the user can put into a field: the name and the address are typed
\* and retyped, well or badly; a plain field is filled in once it is the
\* first of the plain fields, in the order of the form, that is still empty
FormValues(f, formData) ==
    LET PlainFields ==
            <<"tipo_documento_tutor", "numero_documento_tutor",
              "municipio_documento_tutor", "direccion_contacto_tutor">>
    IN  CASE f = "correo_electronico_tutor" ->
                {<<"m", "@", "c", ".", "o">>, <<"m", "@", "c">>}
          [] f = "nombre_tutor" -> {<<"M", " ", "G">>, <<" ">>}
          [] OTHER ->
                IF \E k \in 1..Len(PlainFields) :
                       /\ PlainFields[k] = f
                       /\ formData[f] = <<>>
                       /\ \A j \in 1..(k - 1) : formData[PlainFields[j]] # <<>>
                THEN {IF f = "tipo_documento_tutor" THEN Str("CC") ELSE <<"9">>}
                ELSE {}

\* a timer: the debounced update of one field, or the rest of a goToStep
\* call with what its closure captured
DebounceTimer(name, value) ==
    [kind |-> "debounce", name |-> name, value |-> value, step |-> 0,
     formData |-> EmptyFormData, firmaAprendiz |-> EmptySig,
     esMenorDeEdad |-> "null"]

GoToStepTimer(step, u) ==
    [kind |-> "goToStep", name |-> "", value |-> <<>>, step |-> step,
     formData |-> u.formData, firmaAprendiz |-> u.firmaAprendiz,
     esMenorDeEdad |-> u.esMenorDeEdad]

IsDebounce(t) == t.kind = "debounce"

webFrame ==
    UNCHANGED <<pc, genVars, fmtIn, fmtOut, fmtOut2, lblIn, lblOut, sigIn, sigOut,
                postIn, postOut>>

InitForm ==
    /\ rev = "v110"
    /\ data = FullDocumentData(Str("CC"), <<>>, <<>>, EmptyGuardian,
                               EmptySig, EmptySig)
    /\ actaTpl = GoodActa
    /\ tratTpl = GoodTratamiento
    /\ actaResult = Absent
    /\ esMenor = "unset"
    /\ tratResult = Absent
    /\ result = [returned |-> FALSE, actaCompromiso |-> Absent,
                 tratamientoDatos |-> Absent]
    /\ error = <<>>
    /\ trace = <<>>
    /\ pc = "form"
    /\ fmtIn = <<>> /\ fmtOut = <<>> /\ fmtOut2 = <<>>
    /\ lblIn = <<>> /\ lblOut = <<>>
    /\ sigIn = <<>> /\ sigOut = <<>>
    /\ postIn = <<>>
    /\ postOut = <<>>
    /\ \E tipo \in {"TI", "CC"} :
          ui = [tipo |-> tipo, lookup |-> "pending", esMenorDeEdad |-> "null",
                formData |-> EmptyFormData,
                firmaAprendiz |-> EmptySig, firmaTutor |-> EmptySig,
                isLoading |-> FALSE, isLoadingStep |-> FALSE, error |-> "",
                currentStep |-> 1, timers |-> <<>>, pending |-> 0, sent |-> {}]

\* fetch('/api/generar-formatos') resolves with the applicant of GET
FetchResolves ==
    /\ pc = "form" /\ ui.lookup = "pending"
    /\ ui' = [ui EXCEPT !.lookup = "done",
                        !.esMenorDeEdad = IF ui.tipo = "TI" THEN "true" ELSE "false"]
    /\ webFrame

\* fetch rejects, or its body is not what the handler reads: the catch
FetchFails ==
    /\ pc = "form" /\ ui.lookup = "pending"
    /\ ui' = [ui EXCEPT !.lookup = "done", !.esMenorDeEdad = "false"]
    /\ webFrame

\* saveSignature on the applicant's canvas (step 1), drawn on or not
SaveSignatureAprendiz ==
    /\ pc = "form" /\ ui.currentStep = 1
    /\ \E drawn \in BOOLEAN :
          ui' = IF drawn
                THEN [ui EXCEPT !.firmaAprendiz = PngSig, !.error = ""]
                ELSE [ui EXCEPT !.error = "realice una firma antes de guardar"]
    /\ webFrame

\* clearCanvas on the applicant's canvas
ClearSignatureAprendiz ==
    /\ pc = "form" /\ ui.currentStep = 1
    /\ ui' = [ui EXCEPT !.firmaAprendiz = EmptySig]
    /\ webFrame

\* saveSignature on the guardian's canvas (step 3 of the minor flow)
SaveSignatureTutor ==
    /\ pc = "form" /\ ui.currentStep = 3 /\ ui.esMenorDeEdad = "true"
    /\ \E drawn \in BOOLEAN :
          ui' = IF drawn
                THEN [ui EXCEPT !.firmaTutor = PngSig, !.error = ""]
                ELSE [ui EXCEPT !.error = "realice una firma antes de guardar"]
    /\ webFrame

\* clearCanvas on the guardian's canvas
ClearSignatureTutor ==
    /\ pc = "form" /\ ui.currentStep = 3 /\ ui.esMenorDeEdad = "true"
    /\ ui' = [ui EXCEPT !.firmaTutor = EmptySig]
    /\ webFrame

\* onChange of an input of step 2: the one debounce timer is re-armed
ChangeInput ==
    /\ pc = "form" /\ ui.currentStep = 2 /\ ui.esMenorDeEdad = "true"
    /\ \E name \in FormFields : \E value \in FormValues(name, ui.formData) :
          LET Other(t) == ~IsDebounce(t)
          IN  ui' = [ui EXCEPT !.timers = Append(SelectSeq(@, Other),
                                                 DebounceTimer(name, value))]
    /\ webFrame

\* the debounced setFormData runs
DebounceFires ==
    /\ pc = "form" /\ ui.timers # <<>> /\ IsDebounce(Head(ui.timers))
    /\ ui' = [ui EXCEPT !.formData[Head(ui.timers).name] = Head(ui.timers).value,
                        !.timers = Tail(@)]
    /\ webFrame

\* goToStep up to its await
GoToStepStarts(step) ==
    /\ ui' = [ui EXCEPT !.isLoadingStep = TRUE, !.error = "",
                        !.timers = Append(@, GoToStepTimer(step, ui))]
    /\ webFrame

\* goToStep after its await
GoToStepResumes ==
    /\ pc = "form" /\ ui.timers # <<>> /\ ~IsDebounce(Head(ui.timers))
    /\ LET c == Head(ui.timers)
       IN  ui' = IF goToStepError(c) # ""
                 THEN [ui EXCEPT !.error = goToStepError(c),
                                 !.isLoadingStep = FALSE, !.timers = Tail(@)]
                 ELSE [ui EXCEPT !.currentStep = c.step,
                                 !.isLoadingStep = FALSE, !.timers = Tail(@)]
    /\ webFrame

\* the continue button of step 1
ContinueFromStep1 ==
    /\ pc = "form" /\ ui.currentStep = 1
    /\ ~ui.isLoadingStep /\ SigTruthy(ui.firmaAprendiz)
    /\ GoToStepStarts(IF ui.esMenorDeEdad = "true" THEN 2 ELSE 4)

\* the back button of step 2
BackFromStep2 ==
    /\ pc = "form" /\ ui.currentStep = 2 /\ ui.esMenorDeEdad = "true"
    /\ ~ui.isLoadingStep
    /\ GoToStepStarts(1)

\* the continue button of step 2
ContinueFromStep2 ==
    /\ pc = "form" /\ ui.currentStep = 2 /\ ui.esMenorDeEdad = "true"
    /\ ~ui.isLoadingStep
    /\ GoToStepStarts(3)

\* the back button of step 3
BackFromStep3 ==
    /\ pc = "form" /\ ui.currentStep = 3 /\ ui.esMenorDeEdad = "true"
    /\ ~ui.isLoadingStep
    /\ GoToStepStarts(2)

\* the back button of step 4
BackFromStep4 ==
    /\ pc = "form" /\ ui.currentStep = 4
    /\ ~ui.isLoadingStep
    /\ GoToStepStarts(IF ui.esMenorDeEdad = "true" THEN 3 ELSE 1)

\* submitForm up to its await of fetch
SubmitFormStarts ==
    /\ ui.pending < MaxInFlight
    /\ ui' = IF submitFormError(ui) # ""
             THEN [ui EXCEPT !.error = submitFormError(ui), !.isLoading = FALSE]
             ELSE [ui EXCEPT !.error = "", !.isLoading = TRUE,
                             !.pending = @ + 1, !.sent = {PayloadOf(ui)}]
    /\ webFrame

\* the submit button of step 3
SubmitFromStep3 ==
    /\ pc = "form" /\ ui.currentStep = 3 /\ ui.esMenorDeEdad = "true"
    /\ ~ui.isLoadingStep /\ SigTruthy(ui.firmaTutor)
    /\ SubmitFormStarts

\* the submit button of step 4
SubmitFromStep4 ==
    /\ pc = "form" /\ ui.currentStep = 4
    /\ ~ui.isLoading
    /\ SubmitFormStarts

\* submitForm after a response with success: downloads, resetForm, finally
ResponseSuccess ==
    /\ pc = "form" /\ ui.pending > 0
    /\    ui' = [ui EXCEPT !.pending = @ - 1,
                           !.sent = IF ui.pending = 1 THEN {} ELSE @,
                           !.formData = EmptyFormData,
                           !.firmaAprendiz = EmptySig, !.firmaTutor = EmptySig,
                           !.currentStep = 1, !.error = "",
                           !.isLoading = FALSE]
    /\ webFrame

\* submitForm after a response that is not ok, or a fetch that rejects
ResponseFailure ==
    /\ pc = "form" /\ ui.pending > 0
    /\    ui' = [ui EXCEPT !.pending = @ - 1,
                           !.sent = IF ui.pending = 1 THEN {} ELSE @,
                           !.error = "Error al generar los documentos",
                           !.isLoading = FALSE]
    /\ webFrame

NextForm ==
    \/ FetchResolves \/ FetchFails
    \/ SaveSignatureAprendiz \/ ClearSignatureAprendiz
    \/ SaveSignatureTutor \/ ClearSignatureTutor
    \/ ChangeInput \/ DebounceFires \/ GoToStepResumes
    \/ ContinueFromStep1 \/ BackFromStep2 \/ ContinueFromStep2
    \/ BackFromStep3 \/ BackFromStep4
    \/ SubmitFromStep3 \/ SubmitFromStep4
    \/ ResponseSuccess \/ ResponseFailure

SpecForm == InitForm /\ [][NextForm]_vars


-----------------------------------------------------------------------------
(* Claims about the formatters, checked under SpecFmt *)

IsDigitString(s) == \A i \in 1..Len(s) : IsDigit(s[i])

NotDot(c) == c # "."

\* the reference grouping: counted from the right, every fourth character
\* of the output is a separator and no other character is
GroupedFromRight(out) ==
    /\ \A i \in 1..Len(out) : (out[i] = ".") <=> ((Len(out) - i + 1) % 4 = 0)
    /\ Len(out) % 4 # 0 \/ out = <<>>

\* C4: for a digit-only input of length 0..MaxDigits, the output without its
\* dots is the input (same digits, same order, leading zeros kept), the
\* groups after the first have three digits, the first has one to three, and
\* the empty input gives the empty string.
C4_FormatGroupsDigits ==
    (pc \in {"fmt1", "fmt2"} /\ IsDigitString(fmtIn)) =>
        /\ SelectSeq(fmtOut, NotDot) = fmtIn
        /\ GroupedFromRight(fmtOut)
        /\ (fmtIn = <<>> => fmtOut = <<>>)

C4_Witness ==
    /\ pc = "fmt1"
    /\ fmtIn = <<"0", "0", "7", "0", "7", "7", "0">>
    /\ fmtOut = <<"0", ".", "0", "7", "0", ".", "7", "7", "0">>

\* C5: formatting the formatter's own output changes nothing, for every
\* input made of digits, dots and spaces.
C5_FormatIdempotent ==
    pc = "fmt2" => fmtOut2 = fmtOut

C5_Witness ==
    /\ pc = "fmt2"
    /\ fmtIn = <<"7", " ", "0", ".", "7">>
    /\ fmtOut = <<"7", "0", "7">>
    /\ fmtOut2 = fmtOut

\* C6: the composite label is label + " No. " + formatDocumentNumber(number),
\* where label is the other-type label exactly when the type is Otro and the
\* other-type label is non-empty, and the type otherwise; the guardian's label
\* follows the same rule with no other-type label.
C6_Label(tipo, cual) ==
    IF tipo = Str("Otro") /\ cual # <<>> /\ cual # UNDEF THEN cual ELSE tipo

C6_IdentityLabel ==
    pc = "lbl1" =>
        LET formatted == formatDocumentNumber(lblIn[2])
        IN  /\ lblOut[1] = C6_Label(lblIn[1], lblIn[3]) \o Str(" No. ") \o formatted
            /\ lblOut[2] = C6_Label(lblIn[1], UNDEF) \o Str(" No. ") \o formatted

C6_Witness ==
    /\ pc = "lbl1"
    /\ lblIn = <<Str("Otro"), <<"5", "5", "5">>, <<"P", "A">> >>
    /\ lblOut[1] = <<"P", "A", " ", "N", "o", ".", " ", "5", "5", "5">>
    /\ lblOut[2] = <<"O", "t", "r", "o", " ", "N", "o", ".", " ", "5", "5", "5">>


-----------------------------------------------------------------------------
(* Claims about the placement of a signature, checked under SpecSig *)

AbsNum(a) == [a EXCEPT !.m = Abs(a.m)]

\* rounding unit: 2^MantissaBits * |a| <= k * b says |a| is at most k units
\* in the last place of b
WithinRounding(a, k, b) ==
    LessEq(ExactMul(Num(Pow2(MantissaBits)), AbsNum(a)), ExactMul(Num(k), b))

C12_Left == ExactSub(sigOut.x, sigIn.rect.x)

C12_Right ==
    ExactSub(ExactAdd(sigIn.rect.x, sigIn.rect.width),
             ExactAdd(sigOut.x, sigOut.width))

C12_Bottom == ExactSub(sigOut.y, sigIn.rect.y)

C12_Top ==
    ExactSub(ExactAdd(sigIn.rect.y, sigIn.rect.height),
             ExactAdd(sigOut.y, sigOut.height))

-----------------------------------------------------------------------------
(* Claims about generateDocuments and the fillers, checked under Spec *)

\* C1: a returned result holds a data-treatment output exactly when the
\* applicant's document type is TI; for CC, CE and Otro the slot is undefined.
C1_TratamientoIffTI ==
    result.returned =>
        /\ result.tratamientoDatos.present
             <=> data.tipo_documento_aprendiz = Str("TI")
        /\ result.tratamientoDatos.present => result.tratamientoDatos.ok
        /\ data.tipo_documento_aprendiz # Str("TI")
             => result.tratamientoDatos = Absent

C1_Witness ==
    /\ pc = "returned"
    /\ data.tipo_documento_aprendiz = Str("TI")
    /\ result.tratamientoDatos.ok
    /\ result.tratamientoDatos.doc.flattened

\* C2: the commitment filler is the first call of every invocation, it has
\* returned before the discriminant is evaluated and before the
\* data-treatment filler starts, and every returned result holds its output.
C2_ActaFirst ==
    /\ trace # <<>> => trace[1] = "fillActaCompromiso"
    /\ esMenor # "unset" => actaResult.ok
    /\ tratResult.present => (actaResult.ok /\ esMenor = "yes")
    /\ result.returned =>
          /\ result.actaCompromiso.ok
          /\ result.actaCompromiso = actaResult

C2_Witness ==
    /\ pc = "returned"
    /\ trace = <<"fillActaCompromiso", "esMenorDeEdad", "fillTratamientoDatos",
                 "return">>
    /\ result.actaCompromiso.ok

\* C3: once the commitment filler has failed, generateDocuments returns no
\* result, never starts the data-treatment filler, and raises the filler's
\* error -- for a minor as for an adult.
C3_ActaFailureIsFatal ==
    (actaResult.present /\ ~actaResult.ok) =>
        /\ pc \in {"catch", "raised"}
        /\ ~result.returned
        /\ ~tratResult.present
        /\ esMenor = "unset"
        /\ \A i \in 1..Len(trace) : trace[i] # "fillTratamientoDatos"
        /\ pc = "raised" => error = actaResult.error

C3_Witness ==
    /\ pc = "raised"
    /\ data.tipo_documento_aprendiz = Str("TI")
    /\ ~actaTpl.valid
    /\ tratTpl.valid
    /\ trace = <<"fillActaCompromiso", "throw">>
    /\ error # <<>>

\* the indicator field the claim assigns to each document type
C7_Indicator(tipo) ==
    CASE tipo = Str("TI") -> "tipo_tarjeta_aprendiz"
      [] tipo = Str("CC") -> "tipo_cedula_aprendiz"
      [] tipo = Str("CE") -> "tipo_CE_aprendiz"
      [] tipo = Str("Otro") -> "tipo_otro_aprendiz"

RECURSIVE C9_Expected(_, _, _)
C9_Expected(writes, name, held) ==
    IF writes = <<>> THEN held
    ELSE C9_Expected(Tail(writes), name,
                     IF Head(writes)[1] # name THEN held
                     ELSE IF Head(writes)[2] \in {<<>>, UNDEF} THEN <<>>
                     ELSE Head(writes)[2])

C9_Filled(out, tpl, writes) ==
    /\ out.ok
    /\ out.error = <<>>
    /\ out.doc.flattened
    /\ DOMAIN out.doc.form = DOMAIN tpl.fields
    /\ \A n \in DOMAIN tpl.fields :
          out.doc.form[n] = C9_Expected(writes, n, tpl.fields[n])

\* C9: whatever expected field names a template that loads lacks, when
\* flatten and save raise nothing the filler raises nothing and returns a
\* document, the lookups that miss change no field, and every field the
\* template defines holds the value written to it.
C9_MissingFieldNotFatal ==
    /\ (/\ actaResult.present /\ actaTpl.valid
        /\ FlattenThrown(actaResult.doc, actaTpl) = <<>>)
          => C9_Filled(actaResult, actaTpl, ActaWrites(rev, data))
    /\ (/\ tratResult.present /\ tratTpl.valid
        /\ FlattenThrown(tratResult.doc, tratTpl) = <<>>)
          => C9_Filled(tratResult, tratTpl, TratamientoWrites(data))

C9_Witness ==
    /\ tratResult.ok
    /\ DOMAIN actaTpl.fields = ActaFieldNames \ {"nombre_aprendiz", "dia"}
    /\ DOMAIN tratTpl.fields = TratamientoFieldNames \ {"nombre_aprendiz", "dia"}
    /\ actaResult.ok
    /\ actaResult.doc.form["numero_ficha"] = data.numero_ficha
    /\ tratResult.doc.form["correo_electronico_tutor"] = data.correo_electronico_tutor

C10_BadEmbed(sig) == SigTruthy(sig) /\ ~EmbedOk(sig)

C10_NotDrawn(doc, fieldName) ==
    \A i \in 1..Len(doc.drawn) : doc.drawn[i].field # fieldName

C10_Drawn(doc, fieldName) ==
    \E i \in 1..Len(doc.drawn) : doc.drawn[i].field = fieldName

C10_Finished(out) ==
    /\ out.ok
    /\ out.doc.flattened
    /\ Len(out.doc.log) >= 2
    /\ out.doc.log[Len(out.doc.log) - 1][1] = "flatten"
    /\ out.doc.log[Len(out.doc.log)][1] = "save"

C10_Filled(out, tpl, withTutor) ==
    /\ C10_BadEmbed(data.firma_aprendiz) =>
          /\ C10_Finished(out)
          /\ C10_NotDrawn(out.doc, "firma_aprendiz")
          /\ (/\ withTutor
              /\ EmbedOk(data.firma_tutor)
              /\ "firma_tutor" \in DOMAIN tpl.fields \ tpl.nowidget)
                => C10_Drawn(out.doc, "firma_tutor")
    /\ (withTutor /\ C10_BadEmbed(data.firma_tutor)) =>
          /\ C10_Finished(out)
          /\ C10_NotDrawn(out.doc, "firma_tutor")

\* C10: in a filler whose template loads and whose form flattens, a
\* signature whose bytes the chosen decoder rejects is not drawn and raises
\* nothing: the next signature is still inserted, the form is flattened and
\* saved, and the document is returned.
C10_BadSignatureNotFatal ==
    /\ (/\ actaResult.present /\ actaTpl.valid
        /\ FlattenThrown(actaResult.doc, actaTpl) = <<>>)
          => C10_Filled(actaResult, actaTpl,
                        data.tipo_documento_aprendiz = Str("TI")
                        /\ SigTruthy(data.firma_tutor))
    /\ (/\ tratResult.present /\ tratTpl.valid
        /\ FlattenThrown(tratResult.doc, tratTpl) = <<>>)
          => C10_Filled(tratResult, tratTpl, SigTruthy(data.firma_tutor))

C10_Witness ==
    /\ tratResult.ok
    /\ data.firma_aprendiz = JunkSig
    /\ data.firma_tutor = PngSig
    /\ Len(tratResult.doc.drawn) = 1
    /\ tratResult.doc.drawn[1].field = "firma_tutor"
    /\ actaResult.doc.drawn = tratResult.doc.drawn

\* no guardian identity in the data record: the fields are empty or missing
C13_NoGuardianData(d) ==
    /\ d.tipo_documento_tutor \in {<<>>, UNDEF}
    /\ d.numero_documento_tutor \in {<<>>, UNDEF}
    /\ d.nombre_tutor \in {<<>>, UNDEF}

\* C13: for an adult applicant (type other than TI) with no guardian data,
\* the filled commitment document holds the empty string in
\* tipo_y_documento_tutor, whatever the template held there.
C13_Original ==
    (/\ actaResult.ok
     /\ data.tipo_documento_aprendiz # Str("TI")
     /\ C13_NoGuardianData(data)
     /\ "tipo_y_documento_tutor" \in DOMAIN actaTpl.fields) =>
        actaResult.doc.form["tipo_y_documento_tutor"] = <<>>

\* insertSignatureImage was called for the field / drew an image in it
C14_Called(doc, fieldName) ==
    \E i \in 1..Len(doc.log) :
        /\ doc.log[i][1] \in {"sigEmpty", "sigError", "sigNoWidget", "drawImage"}
        /\ doc.log[i][2] = fieldName

C14_Drawn(doc, fieldName) ==
    \E i \in 1..Len(doc.drawn) : doc.drawn[i].field = fieldName

\* a signature that is supplied is inserted: the call is made, and the image
\* is drawn if its bytes embed and the field has a widget
C14_Inserted(out, tpl, fieldName, sig) ==
    SigTruthy(sig) =>
        /\ C14_Called(out.doc, fieldName)
        /\ (EmbedOk(sig) /\ fieldName \in DOMAIN tpl.fields \ tpl.nowidget)
              => C14_Drawn(out.doc, fieldName)

\* C14: on the commitment document the guardian signature is inserted only
\* for a minor (TI), also when the record of an adult carries one; on the
\* data-treatment document it is inserted whenever supplied; the applicant
\* signature is inserted on every generated document when supplied.
C14_Original ==
    /\ actaResult.ok =>
          /\ C14_Inserted(actaResult, actaTpl, "firma_aprendiz", data.firma_aprendiz)
          /\ data.tipo_documento_aprendiz = Str("TI")
                => C14_Inserted(actaResult, actaTpl, "firma_tutor", data.firma_tutor)
          /\ data.tipo_documento_aprendiz # Str("TI")
                => (/\ ~C14_Called(actaResult.doc, "firma_tutor")
                    /\ ~C14_Drawn(actaResult.doc, "firma_tutor"))
    /\ tratResult.ok =>
          /\ C14_Inserted(tratResult, tratTpl, "firma_aprendiz", data.firma_aprendiz)
          /\ C14_Inserted(tratResult, tratTpl, "firma_tutor", data.firma_tutor)

C15_Count(log, kind) == Cardinality({i \in 1..Len(log) : log[i][1] = kind})

C15_FlattenedLast(out) ==
    LET log == out.doc.log
        n == Len(log)
    IN  /\ out.doc.flattened
        /\ C15_Count(log, "flatten") = 1
        /\ C15_Count(log, "save") = 1
        /\ n >= 2
        /\ log[n - 1][1] = "flatten"
        /\ log[n][1] = "save"
        /\ \A i \in 1..(n - 2) :
              log[i][1] \in {"setText", "miss", "sigEmpty", "sigError",
                             "sigNoWidget", "drawImage"}

\* C15: a filler run that returns a document has flattened the form exactly
\* once, after every field write and every signature insertion and right
\* before serialization; a run that did not flatten returns no document, and
\* no document of a returned result is unflattened.
C15_FlattenLast ==
    /\ actaResult.ok => C15_FlattenedLast(actaResult)
    /\ tratResult.ok => C15_FlattenedLast(tratResult)
    /\ (actaResult.present /\ ~actaResult.doc.flattened) => ~actaResult.ok
    /\ (tratResult.present /\ ~tratResult.doc.flattened) => ~tratResult.ok
    /\ result.returned =>
          /\ result.actaCompromiso.doc.flattened
          /\ result.tratamientoDatos.present
                => result.tratamientoDatos.doc.flattened

C15_Witness ==
    /\ pc = "returned"
    /\ result.tratamientoDatos.ok
    /\ C14_Drawn(result.tratamientoDatos.doc, "firma_tutor")
    /\ C14_Drawn(result.actaCompromiso.doc, "firma_aprendiz")
    /\ result.actaCompromiso.doc.log[1][1] = "setText"
    /\ C15_FlattenedLast(result.actaCompromiso)
    /\ C15_FlattenedLast(result.tratamientoDatos)

C17_LoadedFailing(names) == {t \in Conditions(names) : t.valid /\ ~t.flattenOk}

\* C17: a template that does not load makes its filler raise before any
\* field is written, and with a message that no failure of the same filler
\* on a template that did load has -- for the commitment filler as for the
\* data-treatment filler.
C17_Original ==
    /\ (actaResult.present /\ ~actaTpl.valid) =>
          /\ ~actaResult.ok
          /\ actaResult.doc.log = <<>>
          /\ actaResult.doc.drawn = <<>>
          /\ \A t \in C17_LoadedFailing(ActaFieldNames) :
                fillActaCompromiso(rev, data, t).error # actaResult.error
    /\ (tratResult.present /\ ~tratTpl.valid) =>
          /\ ~tratResult.ok
          /\ tratResult.doc.log = <<>>
          /\ tratResult.doc.drawn = <<>>
          /\ \A t \in C17_LoadedFailing(TratamientoFieldNames) :
                fillTratamientoDatos(data, t).error # tratResult.error

\* C18: a commitment document that is produced from a template defining the
\* three identity fields carries the applicant's name in nombre_aprendiz,
\* the composite identity label in tipo_y_documento_aprendiz and the
\* formatted document number in numero_documento_aprendiz.
C18_Original ==
    (/\ actaResult.ok
     /\ {"nombre_aprendiz", "tipo_y_documento_aprendiz",
         "numero_documento_aprendiz"} \subseteq DOMAIN actaTpl.fields) =>
        /\ actaResult.doc.form["nombre_aprendiz"] = data.nombre_aprendiz
        /\ actaResult.doc.form["tipo_y_documento_aprendiz"]
             = buildTipoYDocumentoAprendiz(data.tipo_documento_aprendiz,
                                           data.numero_documento_aprendiz,
                                           data.cual_tipo_id_aprendiz)
        /\ actaResult.doc.form["numero_documento_aprendiz"]
             = formatDocumentNumber(data.numero_documento_aprendiz)

\* the free-text guardian fields and the institutional fields of the
\* data-treatment document
C19_Verbatim ==
    {"nombre_tutor", "municipio_documento_tutor", "correo_electronico_tutor",
     "direccion_contacto_tutor", "ciudad", "regional", "centro_formacion",
     "programa_formacion", "numero_ficha"}

\* a guardian record with every field filled in
C19_Complete(d) ==
    \A f \in {"tipo_documento_tutor", "numero_documento_tutor", "nombre_tutor",
              "municipio_documento_tutor", "correo_electronico_tutor",
              "direccion_contacto_tutor"} : d[f] # UNDEF /\ Truthy(d[f])

\* C19: in the data-treatment document of a minor with a complete guardian
\* record, every free-text guardian field and every institutional field the
\* template defines holds the supplied value unchanged; the two document
\* numbers are the only values passed through formatDocumentNumber.
C19_GuardianFieldsVerbatim ==
    (tratResult.ok /\ IsMenorDeEdad(data) /\ C19_Complete(data)) =>
        /\ \A f \in C19_Verbatim \cap DOMAIN tratTpl.fields :
              tratResult.doc.form[f] = data[f]
        /\ "documento_tutor" \in DOMAIN tratTpl.fields =>
              tratResult.doc.form["documento_tutor"]
                = formatDocumentNumber(data.numero_documento_tutor)
        /\ "numero_documento_aprendiz" \in DOMAIN tratTpl.fields =>
              tratResult.doc.form["numero_documento_aprendiz"]
                = formatDocumentNumber(data.numero_documento_aprendiz)

C19_Witness ==
    /\ pc = "returned"
    /\ IsMenorDeEdad(data) /\ C19_Complete(data)
    /\ C19_Verbatim \cup {"documento_tutor", "numero_documento_aprendiz"}
         \subseteq DOMAIN tratTpl.fields
    /\ tratTpl.fields["numero_ficha"] = Str("X")
    /\ result.tratamientoDatos.doc.form["numero_ficha"]
         = <<"2", "7", "2", "5", "9", "9", "9">>
    /\ result.tratamientoDatos.doc.form["correo_electronico_tutor"]
         = <<"maria", "@", "correo", ".", "co">>
    /\ data.numero_documento_aprendiz = <<"3", "4", "5", "6", "7", "8", "0">>
    /\ result.tratamientoDatos.doc.form["numero_documento_aprendiz"]
         = <<"3", ".", "4", "5", "6", ".", "7", "8", "0">>
    /\ result.tratamientoDatos.doc.form["documento_tutor"]
         = <<"9", ".", "8", "7", "6">>

\* requests that differ from d in applicant and guardian values only
C20_Variants(d) ==
    {[d EXCEPT !.nombre_aprendiz = name, !.nombre_tutor = tutor,
               !.numero_documento_aprendiz = n] :
        name \in Names, tutor \in Names, n \in DocNumbers}

\* the step of a filler at which it failed
C20_Step(out, tpl) ==
    IF ~tpl.valid THEN "load"
    ELSE IF Offending(out.doc) # {} THEN "appearance"
    ELSE "flatten"

\* where generateDocuments fails for a request, and the message it raises
C20_Failure(d) ==
    LET acta == fillActaCompromiso(rev, d, actaTpl)
        trat == fillTratamientoDatos(d, tratTpl)
    IN  IF ~acta.ok
        THEN [point |-> <<"fillActaCompromiso", C20_Step(acta, actaTpl)>>,
              message |-> acta.error]
        ELSE IF IsMenorDeEdad(d) /\ ~trat.ok
        THEN [point |-> <<"fillTratamientoDatos", C20_Step(trat, tratTpl)>>,
              message |-> trat.error]
        ELSE [point |-> <<"none", "none">>, message |-> <<>>]

\* C20: when generateDocuments raises, every request with other applicant
\* and guardian values that fails at the same point raises the same error,
\* and the body of the 500 response is the same for both, in development
\* as in production.
C20_Original ==
    pc = "raised" =>
        /\ C20_Failure(data).message = error
        /\ \A d \in C20_Variants(data) :
              C20_Failure(d).point = C20_Failure(data).point =>
                /\ C20_Failure(d).message = error
                /\ \A nodeEnv \in {"development", "production"} :
                      InternalErrorBody(nodeEnv, C20_Failure(d).message)
                        = InternalErrorBody(nodeEnv, error)

\* the empty string and the value of a property the record does not have
C22_EmptyInputs == {EmptySig, [mime |-> "undefined", bytes |-> "empty"]}

\* a call with an empty input returns the document with nothing drawn, no
\* field changed and nothing thrown
C22_EmptyIsNoOp(tpl) ==
    \A f \in SignatureFields : \A sig \in C22_EmptyInputs :
        LET before == LoadedDoc(tpl)
            after == insertSignatureImage(before, tpl, f, sig)
        IN  /\ after.drawn = before.drawn
            /\ after.form = before.form
            /\ after.thrown = <<>>

\* a signature that is skipped is not drawn, the other one is drawn if it
\* embeds and its field has a widget, and the document is finished
C22_Skipped(out, tpl, f, other, otherCalled) ==
    (~SigTruthy(data[f]) \/ f \in tpl.nowidget) =>
        /\ ~C14_Drawn(out.doc, f)
        /\ out.ok /\ out.error = <<>> /\ out.doc.flattened
        /\ (/\ otherCalled /\ SigTruthy(data[other]) /\ EmbedOk(data[other])
            /\ other \in DOMAIN tpl.fields \ tpl.nowidget)
              => C14_Drawn(out.doc, other)

\* C22: insertSignatureImage draws nothing and raises nothing for an empty
\* or absent signature and for a field that has no widget; the other
\* signature is still inserted, the form is flattened and saved and the
\* document is returned.
C22_SignatureSkips ==
    /\ C22_EmptyIsNoOp(actaTpl) /\ C22_EmptyIsNoOp(tratTpl)
    /\ (/\ actaResult.present /\ actaTpl.valid
        /\ FlattenThrown(actaResult.doc, actaTpl) = <<>>) =>
          /\ C22_Skipped(actaResult, actaTpl, "firma_aprendiz", "firma_tutor",
                         ActaTutorSignature(rev, data))
          /\ C22_Skipped(actaResult, actaTpl, "firma_tutor", "firma_aprendiz", TRUE)
    /\ (/\ tratResult.present /\ tratTpl.valid
        /\ FlattenThrown(tratResult.doc, tratTpl) = <<>>) =>
          /\ C22_Skipped(tratResult, tratTpl, "firma_aprendiz", "firma_tutor", TRUE)
          /\ C22_Skipped(tratResult, tratTpl, "firma_tutor", "firma_aprendiz", TRUE)

C22_Witness ==
    /\ pc = "returned"
    /\ IsMenorDeEdad(data)
    /\ data.firma_aprendiz = EmptySig
    /\ data.firma_tutor = PngSig
    /\ actaTpl.nowidget = {"firma_tutor"}
    /\ tratTpl.nowidget = {"firma_tutor"}
    /\ result.actaCompromiso.doc.drawn = <<>>
    /\ result.tratamientoDatos.doc.drawn = <<>>
    /\ \E i \in 1..Len(result.actaCompromiso.doc.log) :
          result.actaCompromiso.doc.log[i] = <<"sigNoWidget", "firma_tutor">>
    /\ result.tratamientoDatos.doc.flattened

\* C23: for a minor, a data-treatment filler that fails makes
\* generateDocuments raise that error and return nothing, the commitment
\* document that was already built included; every result returned for a
\* minor carries the data-treatment output.
C23_TratamientoFailureIsFatal ==
    /\ (IsMenorDeEdad(data) /\ tratResult.present /\ ~tratResult.ok) =>
          /\ actaResult.ok
          /\ pc \in {"catch", "raised"}
          /\ ~result.returned
          /\ result.actaCompromiso = Absent
          /\ pc = "raised" => error = tratResult.error /\ error # <<>>
    /\ (IsMenorDeEdad(data) /\ result.returned) =>
          /\ result.tratamientoDatos.present
          /\ result.tratamientoDatos.ok

C23_Witness ==
    /\ pc = "raised"
    /\ IsMenorDeEdad(data)
    /\ actaResult.ok
    /\ tratResult.present /\ ~tratResult.ok
    /\ tratTpl.valid
    /\ error = tratResult.error
    /\ ~result.returned

\* C24: for an applicant whose document type is not TI the data-treatment
\* filler is never called, and the outcome of generateDocuments is what the
\* commitment filler makes of the data and the commitment template alone,
\* whatever the data-treatment template is.
C24_AdultIgnoresTratamiento ==
    ~IsMenorDeEdad(data) =>
        /\ ~tratResult.present
        /\ \A i \in 1..Len(trace) : trace[i] # "fillTratamientoDatos"
        /\ pc = "returned" =>
              /\ result.actaCompromiso = fillActaCompromiso(rev, data, actaTpl)
              /\ result.tratamientoDatos = Absent
        /\ pc = "raised" =>
              error = fillActaCompromiso(rev, data, actaTpl).error

C24_Witness ==
    /\ pc = "returned"
    /\ data.tipo_documento_aprendiz = Str("CC")
    /\ ~tratTpl.valid
    /\ result.actaCompromiso.ok
    /\ result.actaCompromiso.doc.flattened
    /\ ~result.tratamientoDatos.present

\* what a filler did with one signature: drawn with the PNG decoder exactly
\* when the input carries the marker, with the JPEG decoder otherwise, and
\* not drawn at all when the bytes are not of the decoder's format
C26_Decoded(out, tpl, f, called) ==
    LET sig == data[f]
    IN  /\ \A i \in 1..Len(out.doc.drawn) :
              out.doc.drawn[i].field = f =>
                  /\ out.doc.drawn[i].decoder
                       = (IF HasPngMarker(sig) THEN "png" ELSE "jpg")
                  /\ out.doc.drawn[i].image = out.doc.drawn[i].decoder
        /\ (called /\ SigTruthy(sig) /\ f \in DOMAIN tpl.fields \ tpl.nowidget) =>
              (C14_Drawn(out.doc, f)
                 <=> ImageBytes(sig) = (IF HasPngMarker(sig) THEN "png" ELSE "jpg"))
        /\ (SigTruthy(sig) /\ ~EmbedOk(sig)) => out.ok /\ out.doc.flattened

\* C26: the PNG decoder is used exactly for inputs containing
\* "data:image/png" and the JPEG decoder for all others, bare base64
\* included; a signature whose bytes are not of the chosen decoder's format
\* is not drawn and the document is still returned.
C26_DecoderByMarker ==
    /\ (/\ actaResult.present /\ actaTpl.valid
        /\ FlattenThrown(actaResult.doc, actaTpl) = <<>>) =>
          /\ C26_Decoded(actaResult, actaTpl, "firma_aprendiz", TRUE)
          /\ C26_Decoded(actaResult, actaTpl, "firma_tutor",
                         ActaTutorSignature(rev, data))
    /\ (/\ tratResult.present /\ tratTpl.valid
        /\ FlattenThrown(tratResult.doc, tratTpl) = <<>>) =>
          /\ C26_Decoded(tratResult, tratTpl, "firma_aprendiz", TRUE)
          /\ C26_Decoded(tratResult, tratTpl, "firma_tutor", TRUE)

C26_Witness ==
    /\ pc = "returned"
    /\ IsMenorDeEdad(data)
    /\ data.firma_aprendiz = [mime |-> "none", bytes |-> "png"]
    /\ data.firma_tutor = PngSig
    /\ actaTpl.nowidget = {} /\ tratTpl.nowidget = {}
    /\ result.tratamientoDatos.doc.drawn
         = << [field |-> "firma_tutor", image |-> "png", decoder |-> "png"] >>
    /\ result.actaCompromiso.doc.drawn = result.tratamientoDatos.doc.drawn

\* C27: on a commitment document that is produced, cual_tipo_id_aprendiz is
\* empty unless the applicant's document type is Otro, whatever the template
\* held in the field and whatever label the record carries.
C27_Original ==
    (/\ actaResult.ok
     /\ "cual_tipo_id_aprendiz" \in DOMAIN actaTpl.fields
     /\ data.tipo_documento_aprendiz # Str("Otro")) =>
        actaResult.doc.form["cual_tipo_id_aprendiz"] = <<>>

-----------------------------------------------------------------------------
(* Claims about POST *)

\* the guardian fields and the guardian signature of a body
C21_GuardianKeys ==
    {"firma_tutor", "tipo_documento_tutor", "numero_documento_tutor",
     "nombre_tutor", "municipio_documento_tutor", "correo_electronico_tutor",
     "direccion_contacto_tutor"}

\* the applicant the request is about is a minor
C21_Minor(in) ==
    fullDataOf(aprendizDataSimulado(in.route), in.body,
               calculateCurrentDate(in.ahora)).tipo_documento_aprendiz = Str("TI")

\* C21: a body without an applicant signature is answered with 400 and
\* generateDocuments is not called; a minor's body that lacks a guardian
\* field or the guardian signature is answered with 400 as well; an adult's
\* body with an applicant signature and all guardian values empty is not
\* answered with 400.
C21_Original ==
    (pc = "post1" /\ postIn.parses) =>
        /\ Falsy(postIn.body, "firma_aprendiz") =>
              postOut.status = 400 /\ ~postOut.called
        /\ (/\ C21_Minor(postIn)
            /\ \E k \in C21_GuardianKeys : Falsy(postIn.body, k)) =>
              postOut.status = 400 /\ ~postOut.called
        /\ (/\ ~C21_Minor(postIn)
            /\ ~Falsy(postIn.body, "firma_aprendiz")
            /\ \A k \in C21_GuardianKeys : Falsy(postIn.body, k)) =>
              postOut.status # 400

-----------------------------------------------------------------------------
(* The form wizard *)

\* the payload of the adult flow: no guardian data, no guardian signature
IsAdultPayload(p) ==
    /\ \A f \in FormFields : p[f] = <<>>
    /\ ~SigTruthy(p.firma_tutor)

C28_NoAdultPayload ==
    pc = "form" /\ ui.tipo = "TI" => \A p \in ui.sent : ~IsAdultPayload(p)

C28_NoSkipToStep4 ==
    pc = "form" /\ ui.tipo = "TI" /\ ui.currentStep = 1 => ui'.currentStep # 4

\* C28: when the applicant the lookup serves has document type TI, the form
\* never sends the payload of the adult flow and never goes from step 1
\* straight to step 4, whatever the order of the lookup's outcome, the saving
\* of signatures, the navigation and the submit.
C28_Original == [](C28_NoAdultPayload) /\ [][C28_NoSkipToStep4]_vars

\* C29: every payload the minor flow sends has its six guardian fields
\* non-empty after trimming and an address that isValidEmail accepts, whatever
\* the order of the debounced updates, the delayed validation of goToStep(3),
\* the navigation and the submit.
C29_Original ==
    pc = "form" =>
        \A p \in ui.sent :
            ~IsAdultPayload(p) =>
                /\ \A f \in FormFields : Trim(p[f]) # <<>>
                /\ isValidEmail(p["correo_electronico_tutor"])

\* isLoading is false again once no submitForm call is left unfinished
C30_LoadingCleared == pc = "form" /\ ui.pending = 0 => ~ui.isLoading

\* the submit button of step 4 starts no request while one is pending
C30_Step4Guarded ==
    [][pc = "form" /\ ui.currentStep = 4 /\ ui.pending > 0
          => ui'.pending <= ui.pending]_vars

\* C30: at most one generation request of a form is pending at a time,
\* isLoading is true for as long as it is, and isLoading is false again after
\* every way out of submitForm.
C30_Original ==
    pc = "form" =>
        /\ ui.pending <= 1
        /\ ui.pending > 0 => ui.isLoading
        /\ ui.pending = 0 => ~ui.isLoading

====
